---- MODULE Spec2Model ----
(***************************************************************************)
(* A model of the EVM rule engine (dozyio/evm-rule-engine): the rule       *)
(* definition schema (validator.ts), the rule factories and the importer   *)
(* (rules.ts), and the engine (EVMRuleEngine.ts) with its validate-then-   *)
(* append operations and its concurrent evaluate.                          *)
(***************************************************************************)
EXTENDS Integers, Sequences, FiniteSets, TLC

VARIABLES
  engine,     \* "none" before a constructor call has returned, then "live"
  networks,   \* EVMRuleEngine.networks: the configured Network list
  rules,      \* EVMRuleEngine.rules: the accepted BuiltRules, in order
  lastCall,   \* history: the last synchronous call made and how it ended
  calls,      \* the evaluate calls: each one's promises and result
  rt,         \* the export / import round trip in progress
  bh          \* a predicate and its rebuilt copy being compared

vars == <<engine, networks, rules, lastCall, calls, rt, bh>>

(***************************************************************************)
(* Bounds of the model.                                                    *)
(***************************************************************************)
MaxRules == 2    \* rules an engine holds at most
MaxBatch == 2    \* rules in one addRules call (or constructor list)
MaxVal == 2      \* largest threshold and largest observed on-chain value

(***************************************************************************)
(* JavaScript values. Every value has the same three fields so that any    *)
(* two can be compared: t is the typeof tag (with "null" and "array" told  *)
(* apart from "object"), n the numeric payload, s the string payload.      *)
(***************************************************************************)
Undefined == [t |-> "undefined", n |-> 0, s |-> ""]
Null == [t |-> "null", n |-> 0, s |-> ""]
Str(x) == [t |-> "string", n |-> 0, s |-> x]
Big(k) == [t |-> "bigint", n |-> k, s |-> ""]
Num(k) == [t |-> "number", n |-> k, s |-> ""]
Bool(b) == [t |-> "boolean", n |-> IF b THEN 1 ELSE 0, s |-> ""]
Arr(len) == [t |-> "array", n |-> len, s |-> ""]

Missing(v) == v.t \in {"undefined", "null"}

Digit(d) ==
  CASE d = 0 -> "0" [] d = 1 -> "1" [] d = 2 -> "2" [] d = 3 -> "3"
    [] d = 4 -> "4" [] d = 5 -> "5" [] d = 6 -> "6" [] d = 7 -> "7"
    [] d = 8 -> "8" [] OTHER -> "9"

RECURSIVE Decimal(_)
Decimal(k) == IF k < 10 THEN Digit(k) ELSE Decimal(k \div 10) \o Digit(k % 10)

\* BigInt.prototype.toString / Number.prototype.toString on a non-negative
\* integer: its decimal digits.
IntToString(k) == IF k < 0 THEN "-" \o Decimal(0 - k) ELSE Decimal(k)

\* The string of a value, as x.toString() gives it for the parameters the
\* factories convert and as a template literal gives it for any value.
toString(v) ==
  CASE v.t = "string" -> v.s
    [] v.t \in {"bigint", "number"} -> IntToString(v.n)
    [] v.t = "boolean" -> (IF v.n = 1 THEN "true" ELSE "false")
    [] v.t = "undefined" -> "undefined"
    [] v.t = "null" -> "null"
    [] OTHER -> "[object]"

\* The integers whose decimal form the model can read back.
Readable == 0 .. (MaxVal + 10)

\* StringToBigInt: the empty string is 0n, a decimal numeral is its value,
\* anything else has no value (the result is a record so that "no value"
\* can be told from 0).
StringToBigInt(x) ==
  IF x = "" THEN [ok |-> TRUE, n |-> 0]
  ELSE IF \E k \in Readable : IntToString(k) = x
       THEN [ok |-> TRUE, n |-> CHOOSE k \in Readable : IntToString(k) = x]
       ELSE [ok |-> FALSE, n |-> 0]

(***************************************************************************)
(* Rule definitions. params is a record with every field any rule kind     *)
(* uses (and one the schema does not know, extra); an absent field is      *)
(* Undefined.                                                              *)
(***************************************************************************)
NoParams ==
  [value |-> Undefined, compareType |-> Undefined, contractAddress |-> Undefined,
   tokenAddress |-> Undefined, nftAddress |-> Undefined, tokenId |-> Undefined,
   functionName |-> Undefined, abi |-> Undefined, requiredResult |-> Undefined,
   extra |-> Undefined]

Def(type, chainId, params) == [type |-> type, chainId |-> chainId, params |-> params]

CompareTypes == {"eq", "gt", "gte", "lt", "lte"}

RuleKinds ==
  {"walletBalance", "contractBalance", "erc20Balance", "numTransactions", "hasNFT",
   "hasNFTTokenId", "addressIsContract", "addressIsEOA", "callContract"}

\* z.string()
zString(v) == v.t = "string"

\* z.enum(['eq', 'gt', 'gte', 'lt', 'lte'])
compareTypeSchema(v) == v.t = "string" /\ v.s \in CompareTypes

walletBalanceParamsSchema(p) == zString(p.value) /\ compareTypeSchema(p.compareType)

contractBalanceParamsSchema(p) ==
  zString(p.contractAddress) /\ zString(p.value) /\ compareTypeSchema(p.compareType)

erc20BalanceParamsSchema(p) ==
  zString(p.tokenAddress) /\ zString(p.value) /\ compareTypeSchema(p.compareType)

numTransactionsParamsSchema(p) == zString(p.value) /\ compareTypeSchema(p.compareType)

hasNFTParamsSchema(p) == zString(p.nftAddress)

hasNFTTokenIdParamsSchema(p) == zString(p.nftAddress) /\ zString(p.tokenId)

\* z.array(z.any()) for abi, z.any() for requiredResult
callContractParamsSchema(p) ==
  /\ zString(p.contractAddress)
  /\ zString(p.functionName)
  /\ p.abi.t = "array"
  /\ compareTypeSchema(p.compareType)

\* z.discriminatedUnion('type', ...): the params schema of the declared type;
\* unknown keys of params are stripped, not rejected.
paramsSchemaOf(type, p) ==
  CASE type = "walletBalance" -> walletBalanceParamsSchema(p)
    [] type = "contractBalance" -> contractBalanceParamsSchema(p)
    [] type = "erc20Balance" -> erc20BalanceParamsSchema(p)
    [] type = "numTransactions" -> numTransactionsParamsSchema(p)
    [] type = "hasNFT" -> hasNFTParamsSchema(p)
    [] type = "hasNFTTokenId" -> hasNFTTokenIdParamsSchema(p)
    [] type = "addressIsContract" -> TRUE
    [] type = "addressIsEOA" -> TRUE
    [] type = "callContract" -> callContractParamsSchema(p)
    [] type = "custom" -> TRUE
    [] OTHER -> FALSE

ruleDefinitionSchema(d) ==
  /\ zString(d.type)
  /\ zString(d.chainId)
  /\ paramsSchemaOf(d.type.s, d.params)

\* A built-rule schema that forgets the rule member.
builtRuleSchemaDefinitionOnly(r) == ruleDefinitionSchema(r.definition)

\* z.function() accepts any function: the schema checks typeof only, and
\* the engine keeps the caller's function, not the wrapper zod returns.
ruleFunctionSchema(f) == f = "function"

builtRuleSchema(r) == ruleFunctionSchema(r.rule) /\ ruleDefinitionSchema(r.definition)

(***************************************************************************)
(* Networks and providers.                                                 *)
(***************************************************************************)
Net(chainId, provider) == [chainId |-> chainId, provider |-> provider]

NoProvider == "undefined"

\* networks.find(net => net.chainId === chainId)?.provider
getProviderByChainId(nets, chainId) ==
  IF \E i \in 1 .. Len(nets) : Str(nets[i].chainId) = chainId
  THEN nets[CHOOSE i \in 1 .. Len(nets) :
              /\ Str(nets[i].chainId) = chainId
              /\ \A j \in 1 .. (i - 1) : Str(nets[j].chainId) # chainId].provider
  ELSE NoProvider

(***************************************************************************)
(* Built rules. rule is the typeof of the rule member; closure is what a   *)
(* factory-made predicate closes over (its kind, chainId and the params    *)
(* object it was given); a hand-written predicate has kind "custom".       *)
(***************************************************************************)
Closure(kind, chainId, params) == [kind |-> kind, chainId |-> chainId, params |-> params]

BuiltRule(f, closure, definition) == [rule |-> f, closure |-> closure, definition |-> definition]

NoRule == BuiltRule("undefined", Closure("none", Undefined, NoParams), Def(Undefined, Undefined, NoParams))

Built(kind, chainId, params, defParams) ==
  [threw |-> FALSE, error |-> "",
   built |-> BuiltRule("function", Closure(kind, chainId, params), Def(Str(kind), chainId, defParams))]

Thrown(msg) == [threw |-> TRUE, error |-> msg, built |-> NoRule]

\* !['eq', 'gt', 'gte', 'lt', 'lte'].includes(params.compareType)
compareTypeIncluded(v) == v.t = "string" /\ v.s \in CompareTypes

compareTypeMsg == "compareType is required and must be one of eq, gt, gte, lt, lte"

walletBalance(nets, chainId, params) ==
  IF Missing(params.value) THEN Thrown("value is required")
  ELSE IF ~compareTypeIncluded(params.compareType) THEN Thrown(compareTypeMsg)
  ELSE Built("walletBalance", chainId, params,
             [NoParams EXCEPT !.value = Str(toString(params.value)),
                              !.compareType = params.compareType])

contractBalance(nets, chainId, params) ==
  IF Missing(params.contractAddress) THEN Thrown("contractAddress is required")
  ELSE IF Missing(params.value) THEN Thrown("value is required")
  ELSE IF ~compareTypeIncluded(params.compareType) THEN Thrown(compareTypeMsg)
  ELSE Built("contractBalance", chainId, params,
             [NoParams EXCEPT !.contractAddress = params.contractAddress,
                              !.value = Str(toString(params.value)),
                              !.compareType = params.compareType])

erc20Balance(nets, chainId, params) ==
  IF Missing(params.tokenAddress) THEN Thrown("tokenAddress is required")
  ELSE IF Missing(params.value) THEN Thrown("value is required")
  ELSE IF ~compareTypeIncluded(params.compareType) THEN Thrown(compareTypeMsg)
  ELSE Built("erc20Balance", chainId, params,
             [NoParams EXCEPT !.tokenAddress = params.tokenAddress,
                              !.value = Str(toString(params.value)),
                              !.compareType = params.compareType])

numTransactions(nets, chainId, params) ==
  IF Missing(params.value) THEN Thrown("value is required")
  ELSE IF ~compareTypeIncluded(params.compareType) THEN Thrown(compareTypeMsg)
  ELSE Built("numTransactions", chainId, params,
             [NoParams EXCEPT !.value = Str(toString(params.value)),
                              !.compareType = params.compareType])

hasNFT(nets, chainId, params) ==
  IF Missing(params.nftAddress) THEN Thrown("nftAddress is required")
  ELSE Built("hasNFT", chainId, params, [NoParams EXCEPT !.nftAddress = params.nftAddress])

hasNFTTokenId(nets, chainId, params) ==
  IF Missing(params.nftAddress) THEN Thrown("nftAddress is required")
  ELSE IF Missing(params.tokenId) THEN Thrown("tokenId is required")
  ELSE Built("hasNFTTokenId", chainId, params,
             [NoParams EXCEPT !.nftAddress = params.nftAddress,
                              !.tokenId = Str(toString(params.tokenId))])

\* The two address-kind factories check nothing and put the params object
\* they were given into the definition as it is.
addressIsContract(nets, chainId, params) == Built("addressIsContract", chainId, params, params)

addressIsEOA(nets, chainId, params) == Built("addressIsEOA", chainId, params, params)

\* callContract does not check compareType and does not copy it into the
\* definition.
callContract(nets, chainId, params) ==
  IF Missing(params.contractAddress) THEN Thrown("contractAddress is required")
  ELSE IF Missing(params.functionName) THEN Thrown("functionName is required")
  ELSE IF Missing(params.abi) \/ (params.abi.t = "array" /\ params.abi.n = 0)
       THEN Thrown("abi is required")
  ELSE Built("callContract", chainId, params,
             [NoParams EXCEPT !.contractAddress = params.contractAddress,
                              !.functionName = params.functionName,
                              !.abi = params.abi,
                              !.requiredResult = params.requiredResult])

\* const ruleFactories: the factory table, keyed by type
ruleFactories(type, nets, chainId, params) ==
  CASE type = "walletBalance" -> walletBalance(nets, chainId, params)
    [] type = "contractBalance" -> contractBalance(nets, chainId, params)
    [] type = "erc20Balance" -> erc20Balance(nets, chainId, params)
    [] type = "numTransactions" -> numTransactions(nets, chainId, params)
    [] type = "hasNFT" -> hasNFT(nets, chainId, params)
    [] type = "hasNFTTokenId" -> hasNFTTokenId(nets, chainId, params)
    [] type = "addressIsContract" -> addressIsContract(nets, chainId, params)
    [] type = "addressIsEOA" -> addressIsEOA(nets, chainId, params)
    [] OTHER -> callContract(nets, chainId, params)

\* The body of the map callback of createRulesFromDefinitions: one definition.
createRule(nets, def) ==
  IF def.type.t = "undefined" THEN Thrown("Missing rule type")
  ELSE IF def.chainId.t = "undefined" THEN Thrown("Missing chainId")
  ELSE IF getProviderByChainId(nets, def.chainId) = NoProvider
       THEN Thrown("Chain ID not found in networks")
  ELSE IF ~(def.type.t = "string" /\ def.type.s \in RuleKinds)
       THEN Thrown("Unknown rule type")
  ELSE ruleFactories(def.type.s, nets, def.chainId, def.params)

\* An importer that passes over the definitions whose type it does not know.
createRulesFromDefinitionsSkipping(nets, defs) ==
  LET known == {i \in 1 .. Len(defs) : defs[i].type.t = "string" /\ defs[i].type.s \in RuleKinds}
      bad == {i \in known : createRule(nets, defs[i]).threw}
      keep == IF bad = {} /\ known # {} THEN CHOOSE i \in known : TRUE ELSE 0
  IN IF bad # {} THEN [threw |-> TRUE, error |-> "thrown", rules |-> <<>>]
     ELSE [threw |-> FALSE, error |-> "",
           rules |-> IF keep = 0 THEN <<>> ELSE <<createRule(nets, defs[keep]).built>>]

\* createRulesFromDefinitions: the factories run in list order and the first
\* throw ends the call.
createRulesFromDefinitions(nets, defs) ==
  LET made == [i \in 1 .. Len(defs) |-> createRule(nets, defs[i])]
      bad == {i \in 1 .. Len(defs) : made[i].threw}
  IN IF bad = {}
     THEN [threw |-> FALSE, error |-> "", rules |-> [i \in 1 .. Len(defs) |-> made[i].built]]
     ELSE [threw |-> TRUE,
           error |-> made[CHOOSE i \in bad : \A j \in bad : i <= j].error,
           rules |-> <<>>]

(***************************************************************************)
(* The engine: validation and the validate-then-append operations.         *)
(***************************************************************************)
\* this.networks.some(n => n.chainId === chainId)
hasNetwork(nets, chainId) == \E i \in 1 .. Len(nets) : Str(nets[i].chainId) = chainId

\* The message validateNetwork throws with, "" when it returns.
validateNetwork(nets, chainId) ==
  IF hasNetwork(nets, chainId) THEN "" ELSE "invalid rule - network not configured"

\* A validateBuiltRule that stops after the schema.
validateBuiltRuleSchemaOnly(nets, r) == IF ~builtRuleSchema(r) THEN "invalid rule - schema" ELSE ""

\* The message validateBuiltRule throws with, "" when it returns: the
\* schema first, then the network.
validateBuiltRule(nets, r) ==
  IF ~builtRuleSchema(r) THEN "invalid rule - schema"
  ELSE validateNetwork(nets, r.definition.chainId)

Returned(rs) == [threw |-> FALSE, error |-> "", rules |-> rs]

Threw(msg, rs) == [threw |-> TRUE, error |-> msg, rules |-> rs]

\* An addRule that puts the new rule in front of the list.
addRuleInFront(nets, rs, r) ==
  LET msg == validateBuiltRule(nets, r)
  IN IF msg # "" THEN Threw(msg, rs) ELSE Returned(<<r>> \o rs)

\* addRule: validate, then push.
addRule(nets, rs, r) ==
  LET msg == validateBuiltRule(nets, r)
  IN IF msg # "" THEN Threw(msg, rs) ELSE Returned(Append(rs, r))

\* The rule list a per-item validate-and-push loop leaves behind.
addRulesPerItem(nets, rs, batch) ==
  LET bad == {i \in 1 .. Len(batch) : validateBuiltRule(nets, batch[i]) # ""}
      first == IF bad = {} THEN Len(batch) + 1 ELSE CHOOSE i \in bad : \A j \in bad : i <= j
  IN IF bad = {} THEN Returned(rs \o batch)
     ELSE Threw(validateBuiltRule(nets, batch[first]), rs \o SubSeq(batch, 1, first - 1))

\* addRules: the forEach validates every rule of the batch (the first
\* failure throws), and only then push(...rules) appends them all.
addRules(nets, rs, batch) ==
  LET bad == {i \in 1 .. Len(batch) : validateBuiltRule(nets, batch[i]) # ""}
  IN IF bad = {} THEN Returned(rs \o batch)
     ELSE Threw(validateBuiltRule(nets, batch[CHOOSE i \in bad : \A j \in bad : i <= j]), rs)

\* A constructor that checks networks for undefined only.
constructUnlessUndefined(config, arg) ==
  IF ~config.defined
  THEN [threw |-> TRUE, error |-> "No networks configured", networks |-> <<>>, rules |-> <<>>]
  ELSE LET added == IF arg.isArray THEN addRules(config.list, <<>>, arg.items)
                    ELSE addRule(config.list, <<>>, arg.items[1])
       IN IF added.threw
          THEN [threw |-> TRUE, error |-> added.error, networks |-> <<>>, rules |-> <<>>]
          ELSE [threw |-> FALSE, error |-> "", networks |-> config.list, rules |-> added.rules]

\* new EVMRuleEngine(config, rules): config is [defined, list] for
\* config.networks, arg is [isArray, items] for the rules argument. The
\* result has the networks and rules of the new engine; when the
\* constructor throws there is no engine.
construct(config, arg) ==
  IF ~config.defined \/ Len(config.list) = 0
  THEN [threw |-> TRUE, error |-> "No networks configured", networks |-> <<>>, rules |-> <<>>]
  ELSE LET added == IF arg.isArray THEN addRules(config.list, <<>>, arg.items)
                    ELSE addRule(config.list, <<>>, arg.items[1])
       IN IF added.threw
          THEN [threw |-> TRUE, error |-> added.error, networks |-> <<>>, rules |-> <<>>]
          ELSE [threw |-> FALSE, error |-> "", networks |-> config.list, rules |-> added.rules]

\* Definitions listed from the newest rule to the oldest.
getRuleDefinitionsReversed(rs) ==
  [i \in 1 .. Len(rs) |->
     Def(rs[Len(rs) + 1 - i].definition.type, rs[Len(rs) + 1 - i].definition.chainId,
         rs[Len(rs) + 1 - i].definition.params)]

\* getRuleDefinitions: {type, chainId, params} of every rule, in order.
getRuleDefinitions(rs) ==
  [i \in 1 .. Len(rs) |->
     Def(rs[i].definition.type, rs[i].definition.chainId, rs[i].definition.params)]

(***************************************************************************)
(* The inputs the model draws from.                                        *)
(***************************************************************************)
Chain0 == "31337"
Chain1 == "31338"
ChainX == "1"      \* a chain no configuration names

Nets1 == <<Net(Chain0, "p0")>>
Nets2 == <<Net(Chain0, "p0"), Net(Chain1, "p1")>>

\* two entries for chain 31337, each with a provider of its own
NetsDup == <<Net(Chain0, "p0"), Net(Chain0, "p1")>>

NetworkConfigs ==
  {[defined |-> FALSE, list |-> <<>>], [defined |-> TRUE, list |-> <<>>],
   [defined |-> TRUE, list |-> Nets1], [defined |-> TRUE, list |-> Nets2],
   [defined |-> TRUE, list |-> NetsDup]}

CustomClosure == Closure("custom", Undefined, NoParams)

Gte1 == [NoParams EXCEPT !.value = Big(1), !.compareType = Str("gte")]

\* walletBalance(networks, '31337', {value: 1n, compareType: 'gte'})
WalletRule == walletBalance(Nets2, Str(Chain0), Gte1).built

\* {rule: async () => ..., definition: {type: 'custom', chainId: '31338', params: {}}}
CustomRule == BuiltRule("function", CustomClosure, Def(Str("custom"), Str(Chain1), NoParams))

\* addressIsEOA on a chain that is not configured
UnconfiguredRule == addressIsEOA(Nets2, Str(ChainX), NoParams).built

\* a walletBalance definition without value
MissingValueRule ==
  BuiltRule("function", CustomClosure,
            Def(Str("walletBalance"), Str(Chain0), [NoParams EXCEPT !.compareType = Str("gte")]))

\* a valid definition whose rule member is not a function
NotFunctionRule == BuiltRule("undefined", CustomClosure, Def(Str("custom"), Str(Chain0), NoParams))

\* callContract(networks, '31337', {..., requiredResult: true, compareType: 'eq'})
CallContractRule ==
  callContract(Nets2, Str(Chain0),
               [NoParams EXCEPT !.contractAddress = Str("0xc0"), !.functionName = Str("f"),
                                !.abi = Arr(1), !.requiredResult = Bool(TRUE),
                                !.compareType = Str("eq")]).built

Candidates ==
  {WalletRule, CustomRule, UnconfiguredRule, MissingValueRule, NotFunctionRule,
   CallContractRule}

SeqsUpTo(S, k) == UNION {[1 .. m -> S] : m \in 0 .. k}

Batches == SeqsUpTo(Candidates, MaxBatch)

RuleArgs ==
  {[isArray |-> TRUE, items |-> b] : b \in Batches}
    \cup {[isArray |-> FALSE, items |-> <<r>>] : r \in Candidates}

NoCall == [op |-> "none", arg |-> <<>>, threw |-> FALSE, error |-> "", before |-> <<>>]

Called(op, arg, res, before) ==
  [op |-> op, arg |-> arg, threw |-> res.threw, error |-> res.error, before |-> before]

NoRoundTrip == [stage |-> "off"]
NoBehaviour == [stage |-> "off"]

(***************************************************************************)
(* The life of one engine: construction, addRule, addRules.                *)
(***************************************************************************)
Init ==
  /\ engine = "none"
  /\ networks = <<>>
  /\ rules = <<>>
  /\ lastCall = NoCall
  /\ calls = <<>>
  /\ rt = NoRoundTrip
  /\ bh = NoBehaviour

Construct ==
  /\ engine = "none"
  /\ \E config \in NetworkConfigs, arg \in RuleArgs :
       LET res == construct(config, arg)
       IN /\ Len(res.rules) <= MaxRules
          /\ engine' = IF res.threw THEN "none" ELSE "live"
          /\ networks' = res.networks
          /\ rules' = res.rules
          /\ lastCall' = [op |-> "construct", arg |-> arg.items, threw |-> res.threw,
                          error |-> res.error, before |-> <<>>, config |-> config]
  /\ UNCHANGED <<calls, rt, bh>>

AddRule ==
  /\ engine = "live"
  /\ \E r \in Candidates :
       LET res == addRule(networks, rules, r)
       IN /\ Len(res.rules) <= MaxRules
          /\ rules' = res.rules
          /\ lastCall' = Called("addRule", <<r>>, res, rules)
  /\ UNCHANGED <<engine, networks, calls, rt, bh>>

AddRules ==
  /\ engine = "live"
  /\ \E batch \in Batches :
       LET res == addRules(networks, rules, batch)
       IN /\ Len(res.rules) <= MaxRules
          /\ rules' = res.rules
          /\ lastCall' = Called("addRules", batch, res, rules)
  /\ UNCHANGED <<engine, networks, calls, rt, bh>>

Next == Construct \/ AddRule \/ AddRules

Spec == Init /\ [][Next]_vars

(***************************************************************************)
(* Claims about the validate-then-append operations (checked under Spec).  *)
(***************************************************************************)
Validates(r) == validateBuiltRule(networks, r) = ""

ChainConfigured(chainId) == \E i \in 1 .. Len(networks) : chainId = Str(networks[i].chainId)

\* C6: addRules(batch) is all-or-nothing. It throws exactly when some rule
\* of the batch fails validation, and then the rule list is what it was
\* before the call; otherwise the whole batch is appended in batch order.
C6_AddRulesAllOrNothing ==
  lastCall.op = "addRules" =>
    /\ lastCall.threw <=> (\E i \in 1 .. Len(lastCall.arg) : ~Validates(lastCall.arg[i]))
    /\ lastCall.threw => rules = lastCall.before
    /\ ~lastCall.threw => rules = lastCall.before \o lastCall.arg

\* An addRules call threw on a batch whose first rule is valid and whose
\* second is not, on an engine that already held a rule.
C6_Witness ==
  /\ lastCall.op = "addRules"
  /\ lastCall.threw
  /\ Len(lastCall.arg) = 2
  /\ Validates(lastCall.arg[1])
  /\ ~Validates(lastCall.arg[2])
  /\ Len(lastCall.before) = 1
  /\ rules = lastCall.before

\* C7: addRule and addRules throw for a rule whose chainId is not among
\* the engine's networks or whose definition does not match the schema of
\* its type, and the rule list is unchanged after the throw.
C7_InvalidRuleThrows ==
  lastCall.op \in {"addRule", "addRules"} =>
    ((\E i \in 1 .. Len(lastCall.arg) :
        \/ ~ChainConfigured(lastCall.arg[i].definition.chainId)
        \/ ~ruleDefinitionSchema(lastCall.arg[i].definition))
      => lastCall.threw /\ rules = lastCall.before)

\* addRule threw for a schema-valid rule of an unconfigured chain on an
\* engine holding one rule, and the engine still holds just that rule.
C7_Witness ==
  /\ lastCall.op = "addRule"
  /\ lastCall.arg = <<UnconfiguredRule>>
  /\ ruleDefinitionSchema(UnconfiguredRule.definition)
  /\ lastCall.threw
  /\ lastCall.error = "invalid rule - network not configured"
  /\ Len(rules) = 1
  /\ rules = lastCall.before

\* C8: every rule a live engine holds has a callable rule member, a
\* definition that passes the schema of its type, and a configured chainId.
C8_HeldRulesValid ==
  engine = "live" =>
    \A i \in 1 .. Len(rules) :
      /\ rules[i].rule = "function"
      /\ ruleDefinitionSchema(rules[i].definition)
      /\ ChainConfigured(rules[i].definition.chainId)

\* An engine built with a rule by its constructor holds two rules after a
\* later call threw.
C8_Witness ==
  /\ engine = "live"
  /\ Len(rules) = 2
  /\ lastCall.op \in {"addRule", "addRules"}
  /\ lastCall.threw
  /\ rules[1] # rules[2]

(***************************************************************************)
(* evaluate. A predicate call ends in one of four ways (how): it resolves  *)
(* or returns a value, or it throws or rejects with one. The values are    *)
(* records of one shape: a RuleResult, an Error (its message in error), or *)
(* a value that is neither ("undefined", "null", "string").                *)
(***************************************************************************)
Value(kind, name, success, error) ==
  [kind |-> kind, name |-> name, success |-> success, error |-> error]

RuleResult(name, success, error) == Value("RuleResult", name, success, error)

Error(msg) == Value("Error", "", FALSE, Str(msg))

Plain(kind) == Value(kind, "", FALSE, Undefined)

Outcome(how, what) == [how |-> how, what |-> what]

NoOutcome == Outcome("none", Plain("undefined"))

\* What a hand-written predicate may do when it is called.
CustomOutcomes ==
  {Outcome("resolve", RuleResult("custom", TRUE, Undefined)),
   Outcome("resolve", RuleResult("custom", FALSE, Undefined)),
   Outcome("return", RuleResult("custom", TRUE, Undefined)),
   Outcome("throw", Error("boom")),
   Outcome("reject", Error("boom")),
   Outcome("reject", Plain("string")),
   Outcome("reject", Plain("null")),
   Outcome("resolve", Plain("undefined"))}

\* The ruleName template literal of each factory's predicate.
ruleName(cl, address) ==
  CASE cl.kind = "walletBalance" ->
         "Wallet balance " \o toString(cl.params.compareType) \o " " \o toString(cl.params.value)
    [] cl.kind = "contractBalance" ->
         "Contract balance " \o toString(cl.params.compareType) \o " "
           \o toString(cl.params.value) \o " at " \o toString(cl.params.contractAddress)
    [] cl.kind = "erc20Balance" ->
         "ERC20 balance " \o toString(cl.params.compareType) \o " "
           \o toString(cl.params.value) \o " (token: " \o toString(cl.params.tokenAddress) \o ")"
    [] cl.kind = "numTransactions" ->
         "Number of transactions " \o toString(cl.params.compareType) \o " "
           \o toString(cl.params.value)
    [] cl.kind = "hasNFT" ->
         "Address has at least 1 NFT from " \o toString(cl.params.nftAddress)
    [] cl.kind = "hasNFTTokenId" ->
         "Address has NFT " \o toString(cl.params.nftAddress) \o " #" \o toString(cl.params.tokenId)
    [] cl.kind = "addressIsContract" -> "Address is contract: " \o address
    [] cl.kind = "addressIsEOA" -> "Address is EOA: " \o address
    [] cl.kind = "callContract" ->
         "callContract " \o toString(cl.params.contractAddress) \o " "
           \o toString(cl.params.functionName)
    [] OTHER -> "custom"

\* What the predicate of a built rule may do when called with address,
\* whatever the chain answers: a factory-made predicate resolves with a
\* RuleResult of its own name (the comparison's outcome, or a caught
\* failure with its message).
PossibleOutcomes(r, address) ==
  IF r.closure.kind = "custom" THEN CustomOutcomes
  ELSE {Outcome("resolve", RuleResult(ruleName(r.closure, address), TRUE, Undefined)),
        Outcome("resolve", RuleResult(ruleName(r.closure, address), FALSE, Undefined)),
        Outcome("resolve", RuleResult(ruleName(r.closure, address), FALSE, Str("rpc failed")))}

Pending == [state |-> "pending", value |-> Plain("undefined")]
Fulfilled(v) == [state |-> "fulfilled", value |-> v]
Rejected(v) == [state |-> "rejected", value |-> v]

\* A loop that stops calling predicates after the first one.
invokeFirstOnly(rs, address) ==
  [i \in 1 .. Len(rs) |-> [count |-> IF i = 1 THEN 1 ELSE 0, address |-> address]]

\* A loop whose predicates all read one address kept by the engine.
invokeAllShared(rs, address) == [i \in 1 .. Len(rs) |-> [count |-> 1, address |-> "0xa11ce"]]

\* this.rules.map(async ({ rule }, index) => ... rule(address) ...): the
\* map calls every predicate, once, with the address, before anything is
\* awaited.
invokeAll(rs, address) == [i \in 1 .. Len(rs) |-> [count |-> 1, address |-> address]]

\* The promise of one rule without the try / catch around the call.
settleUncaught(o, index) ==
  IF o.how \in {"resolve", "return"} THEN Fulfilled(o.what) ELSE Rejected(o.what)

\* The promise of one rule: try { return await rule(address) } catch (err)
\* { return { name: 'Rule #index', success: false, error: err.message } }.
\* index is the zero-based index of the map; reading message of null or
\* undefined throws inside the catch block.
settle(o, index) ==
  IF o.how \in {"resolve", "return"} THEN Fulfilled(o.what)
  ELSE IF o.what.kind \in {"null", "undefined"} THEN Rejected(Error("TypeError"))
  ELSE Fulfilled(RuleResult("Rule #" \o IntToString(index), FALSE,
                            IF o.what.kind = "Error" THEN o.what.error ELSE Undefined))

\* Storing a settled promise where the completion order puts it.
storeInCompletionOrder(promises, order, i, p) == [promises EXCEPT ![Len(order) + 1] = p]

\* The promises array after the promise of rule i has settled as p: the
\* promise sits at the rule's own position.
storeSettled(promises, order, i, p) == [promises EXCEPT ![i] = p]

\* Promise.all: rejected as soon as one promise is, fulfilled when all are.
promiseAll(promises) ==
  IF \E i \in 1 .. Len(promises) : promises[i].state = "rejected" THEN "rejected"
  ELSE IF \A i \in 1 .. Len(promises) : promises[i].state = "fulfilled" THEN "fulfilled"
  ELSE "pending"

\* res.success as results.every reads it: throws on undefined and null, is
\* undefined on a value without the member.
Unreadable(v) == v.kind \in {"undefined", "null"}

Truthy(v) == v.kind = "RuleResult" /\ v.success

\* An every that ignores what the entries hold.
everyAlwaysTrue(results) == [threw |-> FALSE, value |-> TRUE]

\* results.every((res) => res.success): the entries are read in order up to
\* the first one that is not truthy.
every(results) ==
  LET stop == {i \in 1 .. Len(results) : Unreadable(results[i]) \/ ~Truthy(results[i])}
      first == IF stop = {} THEN 0 ELSE CHOOSE i \in stop : \A j \in stop : i <= j
  IN IF stop = {} THEN [threw |-> FALSE, value |-> TRUE]
     ELSE IF Unreadable(results[first]) THEN [threw |-> TRUE, value |-> FALSE]
     ELSE [threw |-> FALSE, value |-> FALSE]

CallIds == {1}

Addresses == {"0xa11ce", "0xb0b"}

IdleCall ==
  [status |-> "idle", address |-> "", invoked |-> <<>>, outcomes |-> <<>>,
   promises |-> <<>>, order |-> <<>>, ruleResults |-> <<>>, result |-> FALSE]

\* The engine of the evaluation runs: built by its constructor with a rule
\* list the constructor accepts.
InitEval ==
  /\ \E batch \in SeqsUpTo(Candidates, MaxRules) :
       LET arg == [isArray |-> TRUE, items |-> batch]
           res == construct([defined |-> TRUE, list |-> Nets2], arg)
       IN /\ ~res.threw
          /\ engine = "live"
          /\ networks = res.networks
          /\ rules = res.rules
          /\ lastCall = Called("construct", batch, res, <<>>)
  /\ calls = [c \in CallIds |-> IdleCall]
  /\ rt = NoRoundTrip
  /\ bh = NoBehaviour

\* An evaluate that awaits each rule before it calls the next: at its first
\* await only the first predicate has been called.
EvaluateStartAwaiting(c) ==
  /\ calls[c].status = "idle"
  /\ \E address \in Addresses :
       calls' = [calls EXCEPT ![c] =
                   [IdleCall EXCEPT !.status = "pending",
                                    !.address = address,
                                    !.invoked = invokeFirstOnly(rules, address),
                                    !.outcomes = [i \in 1 .. Len(rules) |-> NoOutcome],
                                    !.promises = [i \in 1 .. Len(rules) |-> Pending]]]
  /\ UNCHANGED <<engine, networks, rules, lastCall, rt, bh>>

\* evaluate(address) up to its await: every predicate has been called and
\* every promise of the array is pending.
EvaluateStart(c) ==
  /\ calls[c].status = "idle"
  /\ \E address \in Addresses :
       calls' = [calls EXCEPT ![c] =
                   [IdleCall EXCEPT !.status = "pending",
                                    !.address = address,
                                    !.invoked = invokeAll(rules, address),
                                    !.outcomes = [i \in 1 .. Len(rules) |-> NoOutcome],
                                    !.promises = [i \in 1 .. Len(rules) |-> Pending]]]
  /\ UNCHANGED <<engine, networks, rules, lastCall, rt, bh>>

\* One predicate's call ends, in any order among the rules.
Settle(c) ==
  /\ calls[c].status \in {"pending", "rejected"}
  /\ \E i \in 1 .. Len(calls[c].promises) :
       /\ calls[c].outcomes[i] = NoOutcome
       /\ calls[c].invoked[i].count > 0
       /\ \E o \in PossibleOutcomes(rules[i], calls[c].invoked[i].address) :
            calls' = [calls EXCEPT ![c].outcomes[i] = o,
                                   ![c].promises =
                                      storeSettled(calls[c].promises, calls[c].order, i,
                                                   settle(o, i - 1)),
                                   ![c].order = Append(calls[c].order, i)]
  /\ UNCHANGED <<engine, networks, rules, lastCall, rt, bh>>

\* await Promise.all(promises), results.every(...), return: the promise of
\* evaluate settles.
EvaluateFinish(c) ==
  /\ calls[c].status = "pending"
  /\ promiseAll(calls[c].promises) # "pending"
  /\ LET results == [i \in 1 .. Len(calls[c].promises) |-> calls[c].promises[i].value]
         success == every(results)
     IN IF promiseAll(calls[c].promises) = "rejected" \/ success.threw
        THEN calls' = [calls EXCEPT ![c].status = "rejected"]
        ELSE calls' = [calls EXCEPT ![c].status = "resolved",
                                    ![c].ruleResults = results,
                                    ![c].result = success.value]
  /\ UNCHANGED <<engine, networks, rules, lastCall, rt, bh>>

\* The caller drops a settled call and its slot is free for the next one.
Forget(c) ==
  /\ calls[c].status \in {"resolved", "rejected"}
  /\ promiseAll(calls[c].promises) # "pending"
  /\ \A i \in 1 .. Len(calls[c].outcomes) : calls[c].outcomes[i] # NoOutcome
  /\ calls' = [calls EXCEPT ![c] = IdleCall]
  /\ UNCHANGED <<engine, networks, rules, lastCall, rt, bh>>

NextEval ==
  \E c \in CallIds : EvaluateStart(c) \/ Settle(c) \/ EvaluateFinish(c) \/ Forget(c)

SpecEval == InitEval /\ [][NextEval]_vars

(***************************************************************************)
(* Claims about evaluate (checked under SpecEval).                         *)
(***************************************************************************)
Settled(c) == calls[c].status \in {"resolved", "rejected"}

Failed(o) == o.how \in {"throw", "reject"}

FailedWithError(o) == Failed(o) /\ o.what.kind = "Error"

Succeeded(v) == v.kind = "RuleResult" /\ v.success = TRUE

\* C1: an evaluate call that returns has result true exactly when every
\* entry of ruleResults has success true; with no rules it returns an empty
\* ruleResults and result true.
C1_ResultIsConjunction ==
  \A c \in CallIds :
    /\ calls[c].status = "resolved" =>
         (calls[c].result = TRUE <=>
            \A i \in 1 .. Len(calls[c].ruleResults) : Succeeded(calls[c].ruleResults[i]))
    /\ (Settled(c) /\ Len(rules) = 0) =>
         calls[c].status = "resolved" /\ calls[c].ruleResults = <<>> /\ calls[c].result = TRUE

\* A call over two rules returned false with the first entry a success and
\* the second a failure.
C1_Witness ==
  \E c \in CallIds :
    /\ calls[c].status = "resolved"
    /\ Len(calls[c].ruleResults) = 2
    /\ Succeeded(calls[c].ruleResults[1])
    /\ ~Succeeded(calls[c].ruleResults[2])
    /\ calls[c].result = FALSE

\* The entry rule i contributes: the value its predicate resolved or
\* returned, or else a failure named after its zero-based position.
EntryOf(o, i) ==
  IF Failed(o)
  THEN RuleResult("Rule #" \o IntToString(i - 1), FALSE,
                  IF o.what.kind = "Error" THEN o.what.error ELSE Undefined)
  ELSE o.what

\* C2: whatever the order in which the predicates complete, ruleResults
\* has one entry per rule and entry i is the result of the i-th rule added.
C2_ResultsInRuleOrder ==
  \A c \in CallIds :
    calls[c].status = "resolved" =>
      /\ Len(calls[c].ruleResults) = Len(rules)
      /\ \A i \in 1 .. Len(rules) : calls[c].ruleResults[i] = EntryOf(calls[c].outcomes[i], i)

\* The second rule completed before the first, with a different result.
C2_Witness ==
  \E c \in CallIds :
    /\ calls[c].status = "resolved"
    /\ calls[c].order = <<2, 1>>
    /\ calls[c].ruleResults[1] # calls[c].ruleResults[2]
    /\ Succeeded(calls[c].ruleResults[2])

\* The one way a call's promise rejects: a predicate rejected with null or
\* undefined, or resolved with undefined or null (see C4).
Unhandled(o) ==
  \/ Failed(o) /\ o.what.kind \in {"null", "undefined"}
  \/ ~Failed(o) /\ o # NoOutcome /\ o.what.kind \in {"null", "undefined"}

\* C3: when the predicate of rule i throws or rejects with an Error, its
\* promise is fulfilled with {success: false, error: the message}; the call
\* returns it at position i with result false; every other rule was called
\* and its entry is what its own predicate produced; and the Error never
\* makes the call reject.
C3_ErrorIsolated ==
  \A c \in CallIds :
    \A i \in 1 .. Len(calls[c].outcomes) :
      FailedWithError(calls[c].outcomes[i]) =>
        /\ calls[c].promises[i].state = "fulfilled"
        /\ calls[c].promises[i].value.kind = "RuleResult"
        /\ calls[c].promises[i].value.success = FALSE
        /\ calls[c].promises[i].value.error = calls[c].outcomes[i].what.error
        /\ \A j \in 1 .. Len(calls[c].outcomes) : calls[c].invoked[j].count = 1
        /\ calls[c].status = "resolved" =>
             /\ calls[c].ruleResults[i] = calls[c].promises[i].value
             /\ calls[c].result = FALSE
             /\ \A j \in 1 .. Len(calls[c].outcomes) :
                  (j # i /\ ~Failed(calls[c].outcomes[j])) =>
                    calls[c].ruleResults[j] = calls[c].outcomes[j].what
        /\ calls[c].status = "rejected" =>
             \E j \in 1 .. Len(calls[c].outcomes) : Unhandled(calls[c].outcomes[j])

\* The first rule threw "boom", the second resolved with a success, and
\* the call returned both.
C3_Witness ==
  \E c \in CallIds :
    /\ calls[c].status = "resolved"
    /\ Len(calls[c].outcomes) = 2
    /\ calls[c].outcomes[1] = Outcome("throw", Error("boom"))
    /\ calls[c].ruleResults[1].error = Str("boom")
    /\ Succeeded(calls[c].ruleResults[2])
    /\ calls[c].result = FALSE

\* C4: the promise evaluate returns never rejects, whatever the predicates
\* of the accepted rules do.
C4_EvaluateNeverRejects == \A c \in CallIds : calls[c].status # "rejected"

\* C5: in every evaluate call the predicate of every rule is called exactly
\* once with that call's address, whatever the other rules did, and a new
\* call starts with no result carried over.
C5_EveryRuleInvokedOnce ==
  \A c \in CallIds :
    calls[c].status # "idle" =>
      /\ Len(calls[c].invoked) = Len(rules)
      /\ \A i \in 1 .. Len(rules) :
           calls[c].invoked[i] = [count |-> 1, address |-> calls[c].address]
      /\ calls[c].order = <<>> =>
           \A i \in 1 .. Len(rules) : calls[c].promises[i] = Pending

\* A call returned after its first rule failed, and its second rule had
\* been called all the same.
C5_Witness ==
  \E c \in CallIds :
    /\ calls[c].status = "resolved"
    /\ Len(calls[c].invoked) = 2
    /\ ~Succeeded(calls[c].ruleResults[1])
    /\ calls[c].order = <<1, 2>>
    /\ calls[c].invoked[2] = [count |-> 1, address |-> "0xb0b"]

(***************************************************************************)
(* The predicates the factories build. chain is what the one read of the   *)
(* predicate meets on the rule's chain: ok (the RPC or contract call       *)
(* succeeds), num (the balance or count it returns), code (getCode), owner *)
(* (ownerOf) and ret (the value a called contract function returns).       *)
(***************************************************************************)
ChainState(ok, num, code, owner, ret) ==
  [ok |-> ok, num |-> num, code |-> code, owner |-> owner, ret |-> ret]

\* a === b for a bigint a: no conversion, so a string is never equal
strictEquals(a, b) == b.t = "bigint" /\ b.n = a

\* The mathematical value the relational operators compare a bigint with:
\* a string is read by StringToBigInt, undefined has none.
numericOf(b) ==
  CASE b.t \in {"bigint", "number", "boolean"} -> [ok |-> TRUE, n |-> b.n]
    [] b.t = "string" -> StringToBigInt(b.s)
    [] b.t = "null" -> [ok |-> TRUE, n |-> 0]
    [] OTHER -> [ok |-> FALSE, n |-> 0]

\* A switch whose gte case demands strictly more than the threshold.
compareSwitchStrict(cmp, a, b) ==
  CASE cmp = Str("eq") -> [threw |-> FALSE, success |-> strictEquals(a, b)]
    [] cmp \in {Str("gt"), Str("gte")} ->
         [threw |-> FALSE, success |-> numericOf(b).ok /\ a > numericOf(b).n]
    [] cmp \in {Str("lt"), Str("lte")} ->
         [threw |-> FALSE, success |-> numericOf(b).ok /\ a < numericOf(b).n]
    [] OTHER -> [threw |-> TRUE, success |-> FALSE]

\* The switch on compareType of the balance and count predicates, for the
\* observed bigint a and params.value b.
compareSwitch(cmp, a, b) ==
  CASE cmp = Str("eq") -> [threw |-> FALSE, success |-> strictEquals(a, b)]
    [] cmp = Str("gt") -> [threw |-> FALSE, success |-> numericOf(b).ok /\ a > numericOf(b).n]
    [] cmp = Str("gte") -> [threw |-> FALSE, success |-> numericOf(b).ok /\ a >= numericOf(b).n]
    [] cmp = Str("lt") -> [threw |-> FALSE, success |-> numericOf(b).ok /\ a < numericOf(b).n]
    [] cmp = Str("lte") -> [threw |-> FALSE, success |-> numericOf(b).ok /\ a <= numericOf(b).n]
    [] OTHER -> [threw |-> TRUE, success |-> FALSE]

\* if (address === undefined || address === null || address === '')
addressMissing(address) == address = ""

addressRequired == Outcome("reject", Error("address is required"))

\* A catch block that returns the failure without its message.
CaughtSilently(name, msg) == Outcome("resolve", RuleResult(name, FALSE, Undefined))

Caught(name, msg) == Outcome("resolve", RuleResult(name, FALSE, Str(msg)))

Compared(name, success) == Outcome("resolve", RuleResult(name, success, Undefined))

\* The try block shared by the four balance and count predicates.
thresholdBody(cl, nets, name, chain) ==
  IF getProviderByChainId(nets, cl.chainId) = NoProvider
  THEN Caught(name, "No provider found for chainId: " \o toString(cl.chainId))
  ELSE IF ~chain.ok THEN Caught(name, "rpc failed")
  ELSE LET sw == compareSwitch(cl.params.compareType, chain.num, cl.params.value)
       IN IF sw.threw
          THEN Caught(name, "Unsupported compareType: " \o toString(cl.params.compareType))
          ELSE Compared(name, sw.success)

walletBalanceRule(cl, nets, address, chain) ==
  IF addressMissing(address) THEN addressRequired
  ELSE thresholdBody(cl, nets, ruleName(cl, address), chain)

\* The contract balance predicate reads params.contractAddress and never
\* looks at the address it is called with.
contractBalanceRule(cl, nets, address, chain) ==
  thresholdBody(cl, nets, ruleName(cl, address), chain)

erc20BalanceRule(cl, nets, address, chain) ==
  IF addressMissing(address) THEN addressRequired
  ELSE thresholdBody(cl, nets, ruleName(cl, address), chain)

numTransactionsRule(cl, nets, address, chain) ==
  IF addressMissing(address) THEN addressRequired
  ELSE thresholdBody(cl, nets, ruleName(cl, address), chain)

hasNFTRule(cl, nets, address, chain) ==
  IF addressMissing(address) THEN addressRequired
  ELSE IF getProviderByChainId(nets, cl.chainId) = NoProvider
  THEN Caught(ruleName(cl, address), "No provider found for chainId: " \o toString(cl.chainId))
  ELSE IF ~chain.ok THEN Caught(ruleName(cl, address), "rpc failed")
  ELSE Compared(ruleName(cl, address), chain.num >= 1)

\* String.prototype.toLowerCase on the addresses of the model.
toLowerCase(x) == IF x = "0xA11CE" THEN "0xa11ce" ELSE x

hasNFTTokenIdRule(cl, nets, address, chain) ==
  IF addressMissing(address) THEN addressRequired
  ELSE IF getProviderByChainId(nets, cl.chainId) = NoProvider
  THEN Caught(ruleName(cl, address), "No provider found for chainId: " \o toString(cl.chainId))
  ELSE IF ~chain.ok THEN Caught(ruleName(cl, address), "rpc failed")
  ELSE Compared(ruleName(cl, address), toLowerCase(chain.owner) = toLowerCase(address))

addressIsContractRule(cl, nets, address, chain) ==
  IF addressMissing(address) THEN addressRequired
  ELSE IF getProviderByChainId(nets, cl.chainId) = NoProvider
  THEN Caught(ruleName(cl, address), "No provider found for chainId: " \o toString(cl.chainId))
  ELSE IF ~chain.ok THEN Caught(ruleName(cl, address), "rpc failed")
  ELSE Compared(ruleName(cl, address), chain.code # "0x")

\* An EOA predicate that succeeds on every code payload it reads.
addressIsEOARuleAnyCode(cl, nets, address, chain) ==
  IF addressMissing(address) THEN addressRequired
  ELSE IF getProviderByChainId(nets, cl.chainId) = NoProvider
  THEN Caught(ruleName(cl, address), "No provider found for chainId: " \o toString(cl.chainId))
  ELSE IF ~chain.ok THEN Caught(ruleName(cl, address), "rpc failed")
  ELSE Compared(ruleName(cl, address), TRUE)

addressIsEOARule(cl, nets, address, chain) ==
  IF addressMissing(address) THEN addressRequired
  ELSE IF getProviderByChainId(nets, cl.chainId) = NoProvider
  THEN Caught(ruleName(cl, address), "No provider found for chainId: " \o toString(cl.chainId))
  ELSE IF ~chain.ok THEN Caught(ruleName(cl, address), "rpc failed")
  ELSE Compared(ruleName(cl, address), chain.code = "0x")

\* BigInt(x): a string must be a numeral, undefined and null throw.
toBigInt(v) ==
  CASE v.t \in {"bigint", "number", "boolean"} -> [ok |-> TRUE, n |-> v.n]
    [] v.t = "string" -> StringToBigInt(v.s)
    [] OTHER -> [ok |-> FALSE, n |-> 0]

\* A numeric branch that knows eq alone.
numericSwitchEqOnly(cmp, a, b) ==
  CASE cmp = Str("eq") -> [threw |-> FALSE, success |-> a = b]
    [] OTHER -> [threw |-> TRUE, success |-> FALSE]

\* The numeric branch of callContract: both sides are bigints here, so the
\* strict equality compares values.
numericSwitch(cmp, a, b) ==
  CASE cmp = Str("eq") -> [threw |-> FALSE, success |-> a = b]
    [] cmp = Str("gt") -> [threw |-> FALSE, success |-> a > b]
    [] cmp = Str("gte") -> [threw |-> FALSE, success |-> a >= b]
    [] cmp = Str("lt") -> [threw |-> FALSE, success |-> a < b]
    [] cmp = Str("lte") -> [threw |-> FALSE, success |-> a <= b]
    [] OTHER -> [threw |-> TRUE, success |-> FALSE]

callContractRule(cl, nets, address, chain) ==
  LET name == ruleName(cl, address)
      raw == chain.ret
      req == cl.params.requiredResult
      cmp == cl.params.compareType
  IN IF getProviderByChainId(nets, cl.chainId) = NoProvider
     THEN Caught(name, "No provider found for chainId: " \o toString(cl.chainId))
     ELSE IF ~chain.ok THEN Caught(name, "call failed")
     ELSE IF raw.t = "boolean"
     THEN IF req.t # "boolean"
          THEN Caught(name, "Contract returned boolean but 'requiredResult' is not boolean.")
          ELSE IF cmp # Str("eq")
          THEN Caught(name, "compareType '" \o toString(cmp)
                              \o "' not supported for boolean comparison.")
          ELSE Compared(name, raw = req)
     ELSE IF raw.t = "string"
     THEN IF req.t # "string"
          THEN Caught(name, "Contract returned string but 'requiredResult' is not string.")
          ELSE IF cmp = Str("eq") THEN Compared(name, raw = req)
          ELSE Caught(name, "compareType '" \o toString(cmp)
                              \o "' not supported for string comparison.")
     ELSE IF raw.t \in {"bigint", "number"}
     THEN IF ~toBigInt(req).ok THEN Caught(name, "Cannot convert to a BigInt")
          ELSE LET sw == numericSwitch(cmp, raw.n, toBigInt(req).n)
               IN IF sw.threw THEN Caught(name, "Unsupported compareType: " \o toString(cmp))
                  ELSE Compared(name, sw.success)
     ELSE Caught(name, "Unsupported return type from contract function")

\* Calling the rule member of a factory-built rule.
predicate(r, nets, address, chain) ==
  CASE r.closure.kind = "walletBalance" -> walletBalanceRule(r.closure, nets, address, chain)
    [] r.closure.kind = "contractBalance" -> contractBalanceRule(r.closure, nets, address, chain)
    [] r.closure.kind = "erc20Balance" -> erc20BalanceRule(r.closure, nets, address, chain)
    [] r.closure.kind = "numTransactions" -> numTransactionsRule(r.closure, nets, address, chain)
    [] r.closure.kind = "hasNFT" -> hasNFTRule(r.closure, nets, address, chain)
    [] r.closure.kind = "hasNFTTokenId" -> hasNFTTokenIdRule(r.closure, nets, address, chain)
    [] r.closure.kind = "addressIsContract" -> addressIsContractRule(r.closure, nets, address, chain)
    [] r.closure.kind = "addressIsEOA" -> addressIsEOARule(r.closure, nets, address, chain)
    [] OTHER -> callContractRule(r.closure, nets, address, chain)

(***************************************************************************)
(* A factory-built rule and the rule rebuilt from its definition, called   *)
(* with the same address against the same chain state.                     *)
(***************************************************************************)
Thresholds == {"walletBalance", "contractBalance", "erc20Balance", "numTransactions"}

\* The params objects the model hands to each factory.
FactoryParams(kind) ==
  CASE kind \in Thresholds ->
         {[NoParams EXCEPT !.value = Big(v), !.compareType = Str(cmp),
                           !.contractAddress =
                              IF kind = "contractBalance" THEN Str("0xc0") ELSE Undefined,
                           !.tokenAddress =
                              IF kind = "erc20Balance" THEN Str("0x20") ELSE Undefined] :
            v \in 0 .. MaxVal, cmp \in CompareTypes}
    [] kind = "hasNFT" -> {[NoParams EXCEPT !.nftAddress = Str("0x721")]}
    [] kind = "hasNFTTokenId" ->
         {[NoParams EXCEPT !.nftAddress = Str("0x721"), !.tokenId = Big(1)]}
    [] kind = "callContract" ->
         {[NoParams EXCEPT !.contractAddress = Str("0xc0"), !.functionName = Str("f"),
                           !.abi = Arr(1), !.requiredResult = req, !.compareType = Str(cmp)] :
            req \in {Bool(TRUE), Str("ok"), Big(1), Big(-1)}, cmp \in CompareTypes}
    [] OTHER -> {NoParams}

\* The chain states that matter to each kind's one read.
ChainStates(kind) ==
  CASE kind \in Thresholds \cup {"hasNFT"} ->
         {ChainState(TRUE, n, "0x", "", Undefined) : n \in 0 .. MaxVal}
           \cup {ChainState(FALSE, 0, "0x", "", Undefined)}
    [] kind = "hasNFTTokenId" ->
         {ChainState(TRUE, 0, "0x", o, Undefined) : o \in {"0xA11CE", "0xb0b"}}
           \cup {ChainState(FALSE, 0, "0x", "", Undefined)}
    [] kind = "callContract" ->
         {ChainState(TRUE, 0, "0x", "", ret) :
            ret \in {Bool(TRUE), Bool(FALSE), Str("ok"), Arr(1)}
                      \cup {Big(n) : n \in (-1) .. MaxVal}}
           \cup {ChainState(FALSE, 0, "0x", "", Undefined)}
    [] OTHER ->
         {ChainState(TRUE, 0, code, "", Undefined) : code \in {"0x", "0x6080"}}
           \cup {ChainState(FALSE, 0, "0x", "", Undefined)}

CallAddresses == {"0xa11ce", ""}

InitBehave ==
  /\ engine = "none"
  /\ networks = <<>>
  /\ rules = <<>>
  /\ lastCall = NoCall
  /\ calls = <<>>
  /\ rt = NoRoundTrip
  /\ \E kind \in RuleKinds, address \in CallAddresses :
       \E params \in FactoryParams(kind), chain \in ChainStates(kind) :
         bh = [stage |-> "input", kind |-> kind, params |-> params, address |-> address,
               chain |-> chain, original |-> NoRule, rebuilt |-> NoRule,
               rebuildThrew |-> FALSE, outA |-> NoOutcome, outB |-> NoOutcome]

\* factory(networks, chainId, params)
BuildOriginal ==
  /\ bh.stage = "input"
  /\ LET made == ruleFactories(bh.kind, Nets2, Str(Chain0), bh.params)
     IN bh' = [bh EXCEPT !.stage = IF made.threw THEN "thrown" ELSE "built",
                         !.original = made.built]
  /\ UNCHANGED <<engine, networks, rules, lastCall, calls, rt>>

\* createRulesFromDefinitions(networks, [original.definition])
Rebuild ==
  /\ bh.stage = "built"
  /\ LET made == createRulesFromDefinitions(Nets2, <<bh.original.definition>>)
     IN bh' = [bh EXCEPT !.stage = "rebuilt",
                         !.rebuildThrew = made.threw,
                         !.rebuilt = IF made.threw THEN NoRule ELSE made.rules[1]]
  /\ UNCHANGED <<engine, networks, rules, lastCall, calls, rt>>

\* original.rule(address)
CallOriginal ==
  /\ bh.stage = "rebuilt"
  /\ bh' = [bh EXCEPT !.stage = "calledOriginal",
                      !.outA = predicate(bh.original, Nets2, bh.address, bh.chain)]
  /\ UNCHANGED <<engine, networks, rules, lastCall, calls, rt>>

\* rebuilt.rule(address)
CallRebuilt ==
  /\ bh.stage = "calledOriginal"
  /\ ~bh.rebuildThrew
  /\ bh' = [bh EXCEPT !.stage = "done",
                      !.outB = predicate(bh.rebuilt, Nets2, bh.address, bh.chain)]
  /\ UNCHANGED <<engine, networks, rules, lastCall, calls, rt>>

NextBehave == BuildOriginal \/ Rebuild \/ CallOriginal \/ CallRebuilt

SpecBehave == InitBehave /\ [][NextBehave]_vars

\* C10: the rule rebuilt from a factory-built rule's definition returns the
\* same success and error as the original, for every kind, comparator and
\* observed value.
C10_RebuiltBehavesAlike ==
  /\ bh.stage = "rebuilt" => ~bh.rebuildThrew
  /\ bh.stage = "done" =>
       /\ bh.outA.how = bh.outB.how
       /\ bh.outA.what.success = bh.outB.what.success
       /\ bh.outA.what.error = bh.outB.what.error

(***************************************************************************)
(* The round trip of definitions: export as JSON, parse, rebuild with the  *)
(* factories, add to a fresh engine, read the definitions back.            *)
(***************************************************************************)
\* JSON.stringify of one value: a string, number, boolean, null or array is
\* written as itself, a property holding undefined is left out, and a
\* bigint makes stringify throw.
Serializable(v) == v.t # "bigint"

jsonOf(v) ==
  CASE v.t = "string" -> [j |-> "string", n |-> 0, s |-> v.s]
    [] v.t = "number" -> [j |-> "number", n |-> v.n, s |-> ""]
    [] v.t = "boolean" -> [j |-> IF v.n = 1 THEN "true" ELSE "false", n |-> 0, s |-> ""]
    [] v.t = "array" -> [j |-> "array", n |-> v.n, s |-> ""]
    [] v.t = "null" -> [j |-> "null", n |-> 0, s |-> ""]
    [] OTHER -> [j |-> "absent", n |-> 0, s |-> ""]

\* JSON.parse of one written value; a property that was left out reads as
\* undefined.
valueOf(x) ==
  CASE x.j = "string" -> Str(x.s)
    [] x.j = "number" -> Num(x.n)
    [] x.j = "true" -> Bool(TRUE)
    [] x.j = "false" -> Bool(FALSE)
    [] x.j = "array" -> Arr(x.n)
    [] x.j = "null" -> Null
    [] OTHER -> Undefined

\* exportRulesAsJsonString: JSON.stringify(this.getRuleDefinitions())
exportRulesAsJsonString(rs) ==
  LET definitions == getRuleDefinitions(rs)
      ok(d) == /\ Serializable(d.type)
               /\ Serializable(d.chainId)
               /\ \A k \in DOMAIN d.params : Serializable(d.params[k])
  IN IF \A i \in 1 .. Len(definitions) : ok(definitions[i])
     THEN [threw |-> FALSE,
           json |-> [i \in 1 .. Len(definitions) |->
                       [type |-> jsonOf(definitions[i].type),
                        chainId |-> jsonOf(definitions[i].chainId),
                        params |-> [k \in DOMAIN definitions[i].params |->
                                      jsonOf(definitions[i].params[k])]]]]
     ELSE [threw |-> TRUE, json |-> <<>>]

\* JSON.parse(json) of an exported string
jsonParse(json) ==
  [i \in 1 .. Len(json) |->
     Def(valueOf(json[i].type), valueOf(json[i].chainId),
         [k \in DOMAIN json[i].params |-> valueOf(json[i].params[k])])]

\* The params each factory is given for the rules of the original engine.
RoundTripParams(kind) ==
  CASE kind \in Thresholds ->
         {p \in FactoryParams(kind) :
            p.value = Big(MaxVal) /\ p.compareType \in {Str("eq"), Str("gte")}}
    [] OTHER -> FactoryParams(kind)

\* A rule written by hand around a callContract definition that names its
\* compareType, the only callContract definition the schema accepts.
HandWrittenCallContract ==
  BuiltRule("function", CustomClosure,
            Def(Str("callContract"), Str(Chain0),
                [NoParams EXCEPT !.contractAddress = Str("0xc0"), !.functionName = Str("f"),
                                 !.abi = Arr(1), !.requiredResult = Bool(TRUE),
                                 !.compareType = Str("eq")]))

\* The rules the factories build, one kind at a time. A rule built by the
\* callContract factory is not among them: no engine accepts it.
RoundTripRules ==
  UNION {{ruleFactories(kind, Nets2, Str(Chain0), p).built : p \in RoundTripParams(kind)} :
           kind \in RuleKinds \ {"callContract"}}

RoundTripCandidates ==
  RoundTripRules
    \cup {walletBalance(Nets2, Str(Chain1), Gte1).built, CustomRule, HandWrittenCallContract}

InitRoundTrip ==
  /\ \E batch \in SeqsUpTo(RoundTripCandidates, MaxRules) :
       LET arg == [isArray |-> TRUE, items |-> batch]
           res == construct([defined |-> TRUE, list |-> Nets2], arg)
       IN /\ ~res.threw
          /\ engine = "live"
          /\ networks = res.networks
          /\ rules = res.rules
          /\ lastCall = Called("construct", batch, res, <<>>)
  /\ calls = <<>>
  /\ rt = [stage |-> "held", json |-> <<>>, parsed |-> <<>>, created |-> <<>>,
           fresh |-> <<>>, error |-> ""]
  /\ bh = NoBehaviour

\* const json = engine.exportRulesAsJsonString()
ExportRules ==
  /\ rt.stage = "held"
  /\ LET out == exportRulesAsJsonString(rules)
     IN rt' = [rt EXCEPT !.stage = IF out.threw THEN "exportThrew" ELSE "exported",
                         !.json = out.json]
  /\ UNCHANGED <<engine, networks, rules, lastCall, calls, bh>>

\* const parsed = JSON.parse(json)
ParseJson ==
  /\ rt.stage = "exported"
  /\ rt' = [rt EXCEPT !.stage = "parsed", !.parsed = jsonParse(rt.json)]
  /\ UNCHANGED <<engine, networks, rules, lastCall, calls, bh>>

\* const created = createRulesFromDefinitions(networks, parsed)
CreateRules ==
  /\ rt.stage = "parsed"
  /\ LET made == createRulesFromDefinitions(networks, rt.parsed)
     IN rt' = [rt EXCEPT !.stage = IF made.threw THEN "createThrew" ELSE "created",
                         !.created = made.rules,
                         !.error = made.error]
  /\ UNCHANGED <<engine, networks, rules, lastCall, calls, bh>>

\* const fresh = new EVMRuleEngine({networks}); fresh.addRules(created)
AddToFresh ==
  /\ rt.stage = "created"
  /\ LET empty == construct([defined |-> TRUE, list |-> networks],
                            [isArray |-> TRUE, items |-> <<>>])
         added == addRules(empty.networks, empty.rules, rt.created)
     IN rt' = [rt EXCEPT !.stage = IF added.threw THEN "addThrew" ELSE "done",
                         !.fresh = added.rules,
                         !.error = added.error]
  /\ UNCHANGED <<engine, networks, rules, lastCall, calls, bh>>

NextRoundTrip == ExportRules \/ ParseJson \/ CreateRules \/ AddToFresh

SpecRoundTrip == InitRoundTrip /\ [][NextRoundTrip]_vars

\* C9: for any rule set an engine accepted - read here in the claim's
\* favour as any set of rules of the nine kinds the importer knows, leaving
\* out the custom kind - exporting, parsing, rebuilding with
\* createRulesFromDefinitions and adding to a fresh engine with the same
\* networks succeeds at every step, and the fresh engine's
\* getRuleDefinitions() equals the parsed export.
C9_DefinitionsRoundTrip ==
  (\A i \in 1 .. Len(rules) : rules[i].definition.type.s \in RuleKinds) =>
    /\ rt.stage \notin {"exportThrew", "createThrew", "addThrew"}
    /\ rt.stage = "done" => getRuleDefinitions(rt.fresh) = rt.parsed

(***************************************************************************)
(* The probes validateRules and validateRulesJsonString. An input is       *)
(* [isArray, items]; an item is [isObject, paramsIsObject, def], def being *)
(* what the item holds under type, chainId and params.                     *)
(***************************************************************************)
RawDef(type, chainId, params) ==
  [isObject |-> TRUE, paramsIsObject |-> TRUE, def |-> Def(type, chainId, params)]

\* an array element that is no object (null, a number, a string)
NotAnObject ==
  [isObject |-> FALSE, paramsIsObject |-> FALSE, def |-> Def(Undefined, Undefined, NoParams)]

\* {type: 'addressIsEOA', chainId: '31337'}: no params member
ParamsMissing ==
  [isObject |-> TRUE, paramsIsObject |-> FALSE,
   def |-> Def(Str("addressIsEOA"), Str(Chain0), NoParams)]

\* An array schema that looks at the first element only.
rulesArraySchemaFirstOnly(input) ==
  /\ input.isArray
  /\ Len(input.items) > 0 =>
       /\ input.items[1].isObject
       /\ input.items[1].paramsIsObject
       /\ ruleDefinitionSchema(input.items[1].def)

\* z.array(ruleDefinitionSchema): the input is an array and every element
\* is an object that passes ruleDefinitionSchema (params an object).
rulesArraySchema(input) ==
  /\ input.isArray
  /\ \A i \in 1 .. Len(input.items) :
       /\ input.items[i].isObject
       /\ input.items[i].paramsIsObject
       /\ ruleDefinitionSchema(input.items[i].def)

\* The try block of validateRules: parse throws on a schema failure, then
\* validateNetwork throws for the first definition of an unknown chain.
validateRulesTry(nets, input) ==
  IF ~rulesArraySchema(input) THEN [threw |-> TRUE, value |-> FALSE]
  ELSE IF \E i \in 1 .. Len(input.items) :
            validateNetwork(nets, input.items[i].def.chainId) # ""
       THEN [threw |-> TRUE, value |-> FALSE]
  ELSE [threw |-> FALSE, value |-> TRUE]

\* A validateRules without its catch block.
validateRulesUncaught(nets, rs, input) ==
  [threw |-> validateRulesTry(nets, input).threw,
   value |-> validateRulesTry(nets, input).value, networks |-> nets, rules |-> rs]

\* validateRules(rules): try { ... return true } catch { return false }.
\* The result carries the engine's networks and rules after the call.
validateRules(nets, rs, input) ==
  [threw |-> FALSE,
   value |-> IF validateRulesTry(nets, input).threw THEN FALSE
             ELSE validateRulesTry(nets, input).value,
   networks |-> nets, rules |-> rs]

\* validateRulesJsonString(rules): JSON.parse throws on a malformed text,
\* inside the try; text is [wellFormed, value].
validateRulesJsonString(nets, rs, text) ==
  IF ~text.wellFormed
  THEN [threw |-> FALSE, value |-> FALSE, networks |-> nets, rules |-> rs]
  ELSE validateRules(nets, rs, text.value)

WalletParams(value, cmp) == [NoParams EXCEPT !.value = value, !.compareType = cmp]

CallParams(cmp) ==
  [NoParams EXCEPT !.contractAddress = Str("0xc0"), !.functionName = Str("f"),
                   !.abi = Arr(1), !.requiredResult = Str("100"), !.compareType = cmp]

\* The array elements the probes are given.
ProbeItems ==
  {RawDef(Str("walletBalance"), Str(Chain0), WalletParams(Str("1000"), Str("gte"))),
   RawDef(Str("numTransactions"), Str(Chain1), WalletParams(Str("5"), Str("gte"))),
   RawDef(Str("walletBalance"), Str(ChainX), WalletParams(Str("1000"), Str("gte"))),
   RawDef(Undefined, Str(Chain0), WalletParams(Str("1000"), Str("gte"))),
   RawDef(Str("walletBalance"), Undefined, WalletParams(Str("1000"), Str("gte"))),
   RawDef(Str("walletBalance"), Str(Chain0), WalletParams(Undefined, Str("gte"))),
   RawDef(Str("walletBalance"), Str(Chain0), WalletParams(Str("1000"), Str("invalid"))),
   RawDef(Str("unknownRule"), Str(Chain0), NoParams),
   RawDef(Str("numTransactions"), Str(Chain0), WalletParams(Num(10), Str("eq"))),
   RawDef(Str("hasNFTTokenId"), Str(Chain0),
          [NoParams EXCEPT !.nftAddress = Str("0x721"), !.tokenId = Str("1")]),
   RawDef(Str("hasNFTTokenId"), Str(Chain0), [NoParams EXCEPT !.nftAddress = Str("0x721")]),
   RawDef(Str("custom"), Str(Chain0), NoParams),
   RawDef(Str("addressIsEOA"), Str(Chain0), [NoParams EXCEPT !.extra = Str("x")]),
   RawDef(Str("callContract"), Str(Chain0), CallParams(Str("eq"))),
   RawDef(Str("callContract"), Str(Chain0), CallParams(Undefined)),
   ParamsMissing, NotAnObject}

ProbeInputs ==
  {[isArray |-> TRUE, items |-> b] : b \in SeqsUpTo(ProbeItems, MaxBatch)}
    \cup {[isArray |-> FALSE, items |-> <<>>]}

ProbeTexts ==
  {[wellFormed |-> TRUE, value |-> in] : in \in ProbeInputs}
    \cup {[wellFormed |-> FALSE, value |-> [isArray |-> FALSE, items |-> <<>>]]}

Probed(op, arg, res, netsBefore, rulesBefore) ==
  [op |-> op, arg |-> arg, threw |-> res.threw, value |-> res.value, error |-> "",
   before |-> rulesBefore, networksBefore |-> netsBefore]

InitValidate ==
  /\ \E config \in {Nets1, Nets2}, batch \in SeqsUpTo({WalletRule, CustomRule}, 1) :
       LET arg == [isArray |-> TRUE, items |-> batch]
           res == construct([defined |-> TRUE, list |-> config], arg)
       IN /\ ~res.threw
          /\ engine = "live"
          /\ networks = res.networks
          /\ rules = res.rules
          /\ lastCall = Called("construct", batch, res, <<>>)
  /\ calls = <<>>
  /\ rt = NoRoundTrip
  /\ bh = NoBehaviour

\* engine.validateRules(obj), the first probe of the engine
ValidateRules ==
  /\ engine = "live"
  /\ lastCall.op = "construct"
  /\ \E in \in ProbeInputs :
       LET res == validateRules(networks, rules, in)
       IN /\ networks' = res.networks
          /\ rules' = res.rules
          /\ lastCall' = Probed("validateRules", in, res, networks, rules)
  /\ UNCHANGED <<engine, calls, rt, bh>>

\* engine.validateRulesJsonString(text), the first probe of the engine
ValidateRulesJsonString ==
  /\ engine = "live"
  /\ lastCall.op = "construct"
  /\ \E text \in ProbeTexts :
       LET res == validateRulesJsonString(networks, rules, text)
       IN /\ networks' = res.networks
          /\ rules' = res.rules
          /\ lastCall' = Probed("validateRulesJsonString", text, res, networks, rules)
  /\ UNCHANGED <<engine, calls, rt, bh>>

\* The definitions among the array elements.
UntrustedDefs == {item.def : item \in {it \in ProbeItems : it.isObject /\ it.paramsIsObject}}

\* engine.addRules(createRulesFromDefinitions(networks, defs)): the import
\* of a list of definitions; created is what the importer returned.
ImportDefinitions ==
  /\ engine = "live"
  /\ lastCall.op = "construct"
  /\ \E defs \in SeqsUpTo(UntrustedDefs, MaxBatch) :
       LET made == createRulesFromDefinitions(networks, defs)
           res == IF made.threw THEN Threw(made.error, rules)
                  ELSE addRules(networks, rules, made.rules)
       IN /\ rules' = res.rules
          /\ lastCall' = [op |-> "import", arg |-> defs, threw |-> res.threw,
                          error |-> res.error, before |-> rules,
                          createThrew |-> made.threw, created |-> made.rules]
  /\ UNCHANGED <<engine, networks, calls, rt, bh>>

\* engine.addRules(batch) with rules written by hand around the definitions
AddHandWritten ==
  /\ engine = "live"
  /\ lastCall.op = "construct"
  /\ \E defs \in SeqsUpTo(UntrustedDefs, MaxBatch) :
       LET batch == [i \in 1 .. Len(defs) |-> BuiltRule("function", CustomClosure, defs[i])]
           res == IF Len(batch) = 1 THEN addRule(networks, rules, batch[1])
                  ELSE addRules(networks, rules, batch)
       IN /\ rules' = res.rules
          /\ lastCall' = Called(IF Len(batch) = 1 THEN "addRule" ELSE "addRules",
                                batch, res, rules)
  /\ UNCHANGED <<engine, networks, calls, rt, bh>>

NextValidate == ValidateRules \/ ValidateRulesJsonString \/ ImportDefinitions \/ AddHandWritten

SpecValidate == InitValidate /\ [][NextValidate]_vars

IsProbe == lastCall.op \in {"validateRules", "validateRulesJsonString"}

\* C11: validateRulesJsonString and validateRules return a boolean and
\* never throw, whatever the input (malformed text, a non-array, invalid
\* definitions, an unconfigured chainId), and the engine's rules and
\* networks are what they were before the call.
C11_ProbesNeverThrow ==
  IsProbe =>
    /\ ~lastCall.threw
    /\ lastCall.value \in BOOLEAN
    /\ rules = lastCall.before
    /\ networks = lastCall.networksBefore

\* validateRulesJsonString returned false for a malformed text, on an
\* engine that holds a rule and still holds it.
C11_Witness ==
  /\ lastCall.op = "validateRulesJsonString"
  /\ ~lastCall.arg.wellFormed
  /\ lastCall.value = FALSE
  /\ Len(rules) = 1
  /\ rules = lastCall.before

\* The closed set of rule kinds: the nine factory kinds and custom.
KnownKinds == RuleKinds \cup {"custom"}

\* The params members each kind requires to be strings.
RequiredStrings(type) ==
  CASE type \in {"walletBalance", "numTransactions"} -> {"value"}
    [] type = "contractBalance" -> {"contractAddress", "value"}
    [] type = "erc20Balance" -> {"tokenAddress", "value"}
    [] type = "hasNFT" -> {"nftAddress"}
    [] type = "hasNFTTokenId" -> {"nftAddress", "tokenId"}
    [] type = "callContract" -> {"contractAddress", "functionName"}
    [] OTHER -> {}

\* A definition as the claim wants it: a known type, a string chainId of a
\* configured network, every required member a string, abi an array for a
\* contract call, and compareType one of the five where the kind has one.
WellFormedFor(nets, item) ==
  /\ item.isObject
  /\ item.paramsIsObject
  /\ item.def.type.t = "string"
  /\ item.def.type.s \in KnownKinds
  /\ item.def.chainId.t = "string"
  /\ \E i \in 1 .. Len(nets) : nets[i].chainId = item.def.chainId.s
  /\ \A k \in RequiredStrings(item.def.type.s) : item.def.params[k].t = "string"
  /\ item.def.type.s = "callContract" => item.def.params.abi.t = "array"
  /\ item.def.type.s \in Thresholds \cup {"callContract"} =>
       /\ item.def.params.compareType.t = "string"
       /\ item.def.params.compareType.s \in {"eq", "gt", "gte", "lt", "lte"}

\* C12: validateRules returns true exactly when the input is an array in
\* which every definition has a known type, a string chainId of a
\* configured network and params that match the type's schema; one
\* definition that breaks any of these makes it return false.
C12_ValidateRulesExact ==
  lastCall.op = "validateRules" =>
    (lastCall.value = TRUE <=>
       /\ lastCall.arg.isArray
       /\ \A i \in 1 .. Len(lastCall.arg.items) : WellFormedFor(networks, lastCall.arg.items[i]))

\* validateRules returned false for an array whose first definition is
\* well formed and whose second names a number where a string is required.
C12_Witness ==
  /\ lastCall.op = "validateRules"
  /\ lastCall.value = FALSE
  /\ Len(lastCall.arg.items) = 2
  /\ WellFormedFor(networks, lastCall.arg.items[1])
  /\ lastCall.arg.items[2].def.params.value = Num(10)

UnknownType(def) == ~(def.type.t = "string" /\ def.type.s \in KnownKinds)

\* C13: a definition whose type is not a known kind makes
\* createRulesFromDefinitions throw, and addRule / addRules throw, wherever
\* it stands in the list; no rule is created, none is added, and the other
\* definitions of the list are not accepted without it.
C13_UnknownTypeRejected ==
  /\ lastCall.op = "import" =>
       ((\E i \in 1 .. Len(lastCall.arg) : UnknownType(lastCall.arg[i])) =>
          /\ lastCall.createThrew
          /\ lastCall.created = <<>>
          /\ lastCall.threw
          /\ rules = lastCall.before)
  /\ (lastCall.op \in {"addRule", "addRules"} /\ engine = "live") =>
       ((\E i \in 1 .. Len(lastCall.arg) : UnknownType(lastCall.arg[i].definition)) =>
          lastCall.threw /\ rules = lastCall.before)

\* The importer threw 'Unknown rule type' for a list whose first definition
\* is a good walletBalance and whose second has type 'unknownRule'.
C13_Witness ==
  /\ lastCall.op = "import"
  /\ Len(lastCall.arg) = 2
  /\ ~createRule(networks, lastCall.arg[1]).threw
  /\ lastCall.arg[2].type = Str("unknownRule")
  /\ lastCall.createThrew
  /\ lastCall.error = "Unknown rule type"
  /\ rules = lastCall.before

\* C14: constructing with networks undefined or empty throws 'No networks
\* configured', whatever rules are passed, and no engine comes into being.
C14_NoNetworksThrows ==
  lastCall.op = "construct" =>
    ((~lastCall.config.defined \/ Len(lastCall.config.list) = 0) =>
       /\ lastCall.threw
       /\ lastCall.error = "No networks configured"
       /\ engine = "none"
       /\ rules = <<>>
       /\ networks = <<>>)

\* The constructor threw 'No networks configured' for an empty networks
\* list although it was handed a valid rule.
C14_Witness ==
  /\ lastCall.op = "construct"
  /\ engine = "none"
  /\ lastCall.config = [defined |-> TRUE, list |-> <<>>]
  /\ lastCall.arg = <<WalletRule>>
  /\ lastCall.threw
  /\ lastCall.error = "No networks configured"

\* C15: constructing with a networks list in which two entries have the
\* same chainId fails; the second entry is never shadowed by the first.
C15_DuplicateChainIdRejected ==
  lastCall.op = "construct" =>
    ((\E i, j \in 1 .. Len(lastCall.config.list) :
        i # j /\ lastCall.config.list[i].chainId = lastCall.config.list[j].chainId)
      => lastCall.threw /\ engine = "none")

(***************************************************************************)
(* One rule from factory call to invocation: the factory is called with    *)
(* good or broken params for a configured or an unconfigured chain, and    *)
(* the predicate it returns is invoked once against a chain state.         *)
(***************************************************************************)
\* The params members each factory's kind requires.
RequiredFields(kind) ==
  CASE kind \in {"walletBalance", "numTransactions"} -> {"value", "compareType"}
    [] kind = "contractBalance" -> {"contractAddress", "value", "compareType"}
    [] kind = "erc20Balance" -> {"tokenAddress", "value", "compareType"}
    [] kind = "hasNFT" -> {"nftAddress"}
    [] kind = "hasNFTTokenId" -> {"nftAddress", "tokenId"}
    [] kind = "callContract" ->
         {"contractAddress", "functionName", "abi", "requiredResult", "compareType"}
    [] OTHER -> {}

\* Params with one required member left out, an empty abi, or a compareType
\* outside the five.
BrokenParams(kind) ==
  LET good == {p \in FactoryParams(kind) :
                 /\ p.compareType \in {Undefined, Str("eq")}
                 /\ p.value \in {Undefined, Big(MaxVal)}
                 /\ p.requiredResult \in {Undefined, Bool(TRUE), Big(1)}}
  IN {[p EXCEPT ![f] = Undefined] : p \in good, f \in RequiredFields(kind)}
       \cup {[p EXCEPT !.compareType = Str("invalid")] :
               p \in {q \in good : "compareType" \in RequiredFields(kind)}}
       \cup {[p EXCEPT !.abi = Arr(0)] : p \in {q \in good : kind = "callContract"}}

InitPredicate ==
  /\ engine = "none"
  /\ networks = <<>>
  /\ rules = <<>>
  /\ lastCall = NoCall
  /\ calls = <<>>
  /\ rt = NoRoundTrip
  /\ \E kind \in RuleKinds, chainId \in {Chain0, ChainX}, address \in CallAddresses :
       \E params \in FactoryParams(kind) \cup BrokenParams(kind), chain \in ChainStates(kind) :
         bh = [stage |-> "params", kind |-> kind, chainId |-> Str(chainId), params |-> params,
               address |-> address, chain |-> chain, built |-> NoRule, error |-> "",
               outcome |-> NoOutcome]

\* const built = factory(networks, chainId, params)
CallFactory ==
  /\ bh.stage = "params"
  /\ LET made == ruleFactories(bh.kind, Nets2, bh.chainId, bh.params)
     IN bh' = [bh EXCEPT !.stage = IF made.threw THEN "refused" ELSE "built",
                         !.built = made.built,
                         !.error = made.error]
  /\ UNCHANGED <<engine, networks, rules, lastCall, calls, rt>>

\* built.rule(address)
InvokeRule ==
  /\ bh.stage = "built"
  /\ bh' = [bh EXCEPT !.stage = "called",
                      !.outcome = predicate(bh.built, Nets2, bh.address, bh.chain)]
  /\ UNCHANGED <<engine, networks, rules, lastCall, calls, rt>>

NextPredicate == CallFactory \/ InvokeRule

SpecPredicate == InitPredicate /\ [][NextPredicate]_vars

(***************************************************************************)
(* Claims about the predicates (checked under SpecPredicate).              *)
(***************************************************************************)
\* What the rule of the given kind, built for the same chainId, returns for
\* the address and chain state of the invocation at hand.
OutcomeOf(kind) ==
  predicate(ruleFactories(kind, Nets2, bh.chainId, bh.params).built, Nets2, bh.address, bh.chain)

\* The predicate got as far as an answer from the chain: an address was
\* given, the rule's chain has a provider and the read succeeded.
ReadSucceeded ==
  /\ bh.address # ""
  /\ \E i \in 1 .. Len(Nets2) : Str(Nets2[i].chainId) = bh.chainId
  /\ bh.chain.ok

AddressKindCalled == bh.stage = "called" /\ bh.kind \in {"addressIsContract", "addressIsEOA"}

\* C16 as stated: for every address given, every chain and every chain
\* state, exactly one of the addressIsContract rule and the addressIsEOA
\* rule returns success true.
C16_ExactlyOneAlways ==
  (AddressKindCalled /\ bh.address # "") =>
    (OutcomeOf("addressIsContract").what.success # OutcomeOf("addressIsEOA").what.success)

\* C16, amended: when the code of the address was read, exactly one of the
\* two rules returns success true - the EOA rule alone on an empty code
\* payload, the contract rule alone on a non-empty one; when it was not
\* read (no address, no provider for the chain, a failed getCode) neither
\* rule returns success true.
C16_ExactlyOneWhenCodeRead ==
  AddressKindCalled =>
    /\ bh.outcome = OutcomeOf(bh.kind)
    /\ ReadSucceeded =>
         /\ OutcomeOf("addressIsEOA").what.success = (bh.chain.code = "0x")
         /\ OutcomeOf("addressIsContract").what.success = (bh.chain.code # "0x")
         /\ OutcomeOf("addressIsEOA").how = "resolve"
         /\ OutcomeOf("addressIsContract").how = "resolve"
    /\ ~ReadSucceeded =>
         /\ ~OutcomeOf("addressIsEOA").what.success
         /\ ~OutcomeOf("addressIsContract").what.success

\* The EOA rule was invoked on an address with code and returned success
\* false, where the contract rule returns success true.
C16_Witness ==
  /\ AddressKindCalled
  /\ bh.kind = "addressIsEOA"
  /\ ReadSucceeded
  /\ bh.chain.code = "0x6080"
  /\ bh.outcome.what.success = FALSE
  /\ OutcomeOf("addressIsContract").what.success = TRUE

\* A balance or count rule with compareType gte was invoked and its one
\* read returned a value.
ThresholdRead ==
  /\ bh.stage = "called"
  /\ bh.kind \in Thresholds
  /\ bh.params.compareType = Str("gte")
  /\ bh.params.value.t = "bigint"
  /\ bh.chainId = Str(Chain0)
  /\ bh.chain.ok
  /\ bh.address # "" \/ bh.kind = "contractBalance"

\* C17: a balance or count rule with compareType gte and value V returns
\* success true when the observed value is exactly V, and success false
\* without an error when it is V - 1.
C17_ThresholdBoundary ==
  ThresholdRead =>
    /\ bh.chain.num = bh.params.value.n =>
         bh.outcome = Outcome("resolve", RuleResult(bh.outcome.what.name, TRUE, Undefined))
    /\ bh.chain.num = bh.params.value.n - 1 =>
         bh.outcome = Outcome("resolve", RuleResult(bh.outcome.what.name, FALSE, Undefined))

\* An erc20Balance rule with the largest threshold met a balance one below
\* it and failed without an error.
C17_Witness ==
  /\ ThresholdRead
  /\ bh.kind = "erc20Balance"
  /\ bh.params.value = Big(MaxVal)
  /\ bh.chain.num = MaxVal - 1
  /\ bh.outcome.what.success = FALSE
  /\ bh.outcome.what.error = Undefined

\* The comparison a callContract rule is asked for cannot be made on the
\* value the contract returned.
ComparisonUnsupported ==
  /\ bh.kind = "callContract"
  /\ \/ /\ bh.chain.ret.t \in {"boolean", "string"}
        /\ bh.params.requiredResult.t # bh.chain.ret.t \/ bh.params.compareType # Str("eq")
     \/ /\ bh.chain.ret.t \in {"bigint", "number"}
        /\ \/ ~toBigInt(bh.params.requiredResult).ok
           \/ bh.params.compareType \notin {Str(c) : c \in CompareTypes}
     \/ bh.chain.ret.t \notin {"boolean", "string", "bigint", "number"}

\* The execution faults of the invocation at hand.
ExecutionFault ==
  \/ ~(\E i \in 1 .. Len(Nets2) : Str(Nets2[i].chainId) = bh.chainId)
  \/ ~bh.chain.ok
  \/ ComparisonUnsupported

\* C18: in every RuleResult a factory-built predicate returns, error is
\* present exactly when an execution fault made success false; a comparison
\* that was computed and came out false carries no error, and success true
\* never comes with an error.
C18_ErrorIffFault ==
  (bh.stage = "called" /\ bh.outcome.how = "resolve") =>
    /\ bh.outcome.what.kind = "RuleResult"
    /\ (bh.outcome.what.error # Undefined) <=> ExecutionFault
    /\ (bh.outcome.what.error # Undefined) => bh.outcome.what.success = FALSE
    /\ bh.outcome.what.error # Undefined => bh.outcome.what.error.t = "string"

\* A wallet balance below the threshold of a gte rule: success false and no
\* error; the read itself succeeded.
C18_Witness ==
  /\ bh.stage = "called"
  /\ bh.kind = "walletBalance"
  /\ bh.params.compareType = Str("gte")
  /\ bh.chain.ok
  /\ bh.chain.num < bh.params.value.n
  /\ ~ExecutionFault
  /\ bh.outcome = Outcome("resolve", RuleResult(bh.outcome.what.name, FALSE, Undefined))

\* C19: a predicate built by a factory never throws and never rejects,
\* whatever the address (given or not) and whatever the provider does: it
\* resolves with a RuleResult, and a failure is {success: false, error}
\* under the rule's own name.
C19_PredicateNeverRejects ==
  bh.stage = "called" =>
    /\ bh.outcome.how = "resolve"
    /\ bh.outcome.what.kind = "RuleResult"
    /\ bh.outcome.what.name = ruleName(bh.built.closure, bh.address)
    /\ ExecutionFault =>
         bh.outcome.what.success = FALSE /\ bh.outcome.what.error.t = "string"

\* C20: every factory throws at the factory call, with a message, when a
\* required member of its params is missing or its compareType is not one
\* of the five; no such params get as far as a built rule.
C20_FactoryValidatesEagerly ==
  bh.stage \in {"built", "refused", "called"} =>
    (((\E f \in RequiredFields(bh.kind) : Missing(bh.params[f]))
       \/ ("compareType" \in RequiredFields(bh.kind)
             /\ bh.params.compareType \notin {Str(c) : c \in CompareTypes})
       \/ bh.params.abi = Arr(0))
      => bh.stage = "refused" /\ bh.error # "")

\* A callContract rule was invoked and the contract call returned.
ContractReturned ==
  /\ bh.stage = "called"
  /\ bh.kind = "callContract"
  /\ bh.chainId = Str(Chain0)
  /\ bh.chain.ok

\* The comparison of two integers under one of the five comparators.
Holds(cmp, a, b) ==
  CASE cmp = "eq" -> a = b
    [] cmp = "gt" -> a > b
    [] cmp = "gte" -> a >= b
    [] cmp = "lt" -> a < b
    [] OTHER -> a <= b

EOARule == addressIsEOA(Nets2, Str(Chain0), NoParams).built

\* The rules offered to an engine in use: one it accepts, one it refuses.
UseCandidates == {EOARule, UnconfiguredRule}

\* The outcome of a call on an engine in use.
Did(op, res) == [op |-> op, threw |-> res.threw, error |-> res.error]

\* accepted lists the rules in the order the engine accepted them; seen is
\* what the latest getRuleDefinitions() call returned.
InitUse ==
  /\ \E batch \in SeqsUpTo({WalletRule, CustomRule}, 1) :
       LET arg == [isArray |-> TRUE, items |-> batch]
           res == construct([defined |-> TRUE, list |-> Nets2], arg)
       IN /\ ~res.threw
          /\ engine = "live"
          /\ networks = res.networks
          /\ rules = res.rules
          /\ lastCall = Called("construct", batch, res, <<>>)
          /\ rt = [stage |-> "use", accepted |-> batch, seen |-> <<>>]
  /\ calls = [c \in CallIds |-> IdleCall]
  /\ bh = NoBehaviour

\* An addRule that makes the calls in flight wait for the new rule too.
UseAddRuleJoining ==
  /\ engine = "live"
  /\ \E r \in UseCandidates :
       LET res == addRule(networks, rules, r)
       IN /\ Len(res.rules) <= MaxRules
          /\ rules' = res.rules
          /\ lastCall' = Did("addRule", res)
          /\ rt' = [rt EXCEPT !.accepted = IF res.threw THEN @ ELSE Append(@, r)]
          /\ calls' = [c \in CallIds |->
                         IF res.threw \/ calls[c].status # "pending" THEN calls[c]
                         ELSE [calls[c] EXCEPT
                                 !.invoked = Append(@, [count |-> 1, address |-> calls[c].address]),
                                 !.outcomes = Append(@, NoOutcome),
                                 !.promises = Append(@, Pending)]]
  /\ UNCHANGED <<engine, networks, bh>>

\* engine.addRule(rule), at any moment of the engine's life
UseAddRule ==
  /\ engine = "live"
  /\ \E r \in UseCandidates :
       LET res == addRule(networks, rules, r)
       IN /\ Len(res.rules) <= MaxRules
          /\ rules' = res.rules
          /\ lastCall' = Did("addRule", res)
          /\ rt' = [rt EXCEPT !.accepted = IF res.threw THEN @ ELSE Append(@, r)]
  /\ UNCHANGED <<engine, networks, calls, bh>>

\* engine.addRules(batch), at any moment of the engine's life
UseAddRules ==
  /\ engine = "live"
  /\ \E batch \in SeqsUpTo(UseCandidates, MaxBatch) :
       LET res == addRules(networks, rules, batch)
       IN /\ Len(res.rules) <= MaxRules
          /\ rules' = res.rules
          /\ lastCall' = Did("addRules", res)
          /\ rt' = [rt EXCEPT !.accepted = IF res.threw THEN @ ELSE @ \o batch]
  /\ UNCHANGED <<engine, networks, calls, bh>>

Read(op, result) == [op |-> op, threw |-> FALSE, error |-> "", result |-> result]

\* const defs = engine.getRuleDefinitions()
UseGetRuleDefinitions ==
  /\ engine = "live"
  /\ lastCall' = Read("getRuleDefinitions", getRuleDefinitions(rules))
  /\ rt' = [rt EXCEPT !.seen = getRuleDefinitions(rules)]
  /\ UNCHANGED <<engine, networks, rules, calls, bh>>

\* engine.exportRulesAsJsonString()
UseExport ==
  /\ engine = "live"
  /\ lastCall' = [Read("export", exportRulesAsJsonString(rules).json)
                    EXCEPT !.threw = exportRulesAsJsonString(rules).threw]
  /\ UNCHANGED <<engine, networks, rules, calls, rt, bh>>

\* engine.validateRules(defs), defs being the definitions the engine holds
UseValidateRules ==
  /\ engine = "live"
  /\ LET defs == getRuleDefinitions(rules)
         in == [isArray |-> TRUE,
                items |-> [i \in 1 .. Len(defs) |->
                             RawDef(defs[i].type, defs[i].chainId, defs[i].params)]]
         res == validateRules(networks, rules, in)
     IN /\ networks' = res.networks
        /\ rules' = res.rules
        /\ lastCall' = [Read("validateRules", res.value) EXCEPT !.threw = res.threw]
  /\ UNCHANGED <<engine, calls, rt, bh>>

NextUse ==
  \/ UseAddRule
  \/ UseAddRules
  \/ UseGetRuleDefinitions
  \/ UseExport
  \/ UseValidateRules
  \/ \E c \in CallIds : EvaluateStart(c) \/ Settle(c) \/ EvaluateFinish(c) \/ Forget(c)

SpecUse == InitUse /\ [][NextUse]_vars

\* C22: getRuleDefinitions() returns one {type, chainId, params} per
\* accepted rule, in the order the rules were accepted (those of the
\* constructor first), and the value and tokenId of a factory-built rule
\* are there as decimal strings.
C22_DefinitionsInAcceptanceOrder ==
  lastCall.op = "getRuleDefinitions" =>
    /\ Len(lastCall.result) = Len(rt.accepted)
    /\ \A i \in 1 .. Len(rt.accepted) :
         LET d == lastCall.result[i]
             r == rt.accepted[i]
         IN /\ DOMAIN d = {"type", "chainId", "params"}
            /\ d.type = r.definition.type
            /\ d.chainId = r.definition.chainId
            /\ d.params = r.definition.params
            /\ r.closure.kind \in RuleKinds =>
                 \A k \in {"value", "tokenId"} :
                   r.closure.params[k] # Undefined =>
                     d.params[k] = Str(IntToString(r.closure.params[k].n))

\* The constructor took a walletBalance rule of value 1n, addRule or
\* addRules an addressIsEOA rule, and getRuleDefinitions() returned the two
\* in that order with value '1'.
C22_Witness ==
  /\ lastCall.op = "getRuleDefinitions"
  /\ Len(lastCall.result) = 2
  /\ lastCall.result[1].type = Str("walletBalance")
  /\ lastCall.result[1].params.value = Str("1")
  /\ lastCall.result[2].type = Str("addressIsEOA")
  /\ rt.accepted = <<WalletRule, EOARule>>

(***************************************************************************)
(* The networks array between the factory call and the rule's calls: the   *)
(* caller holds the array it gave the factory and may change it in place.  *)
(***************************************************************************)
\* {chainId: '1', provider: px}, pushed after the rule was built
LateNetwork == Net(ChainX, "px")

\* seenNets is the array as the latest rule call met it.
InitNetworks ==
  /\ engine = "none"
  /\ networks = Nets2
  /\ rules = <<>>
  /\ lastCall = NoCall
  /\ calls = <<>>
  /\ rt = NoRoundTrip
  /\ \E kind \in RuleKinds, chainId \in {Chain0, ChainX}, address \in CallAddresses :
       \E params \in FactoryParams(kind) \cup BrokenParams(kind), chain \in ChainStates(kind) :
         bh = [stage |-> "params", kind |-> kind, chainId |-> Str(chainId), params |-> params,
               address |-> address, chain |-> chain, built |-> NoRule, error |-> "",
               outcome |-> NoOutcome, seenNets |-> <<>>]

\* networks.push(late) or networks.shift(), once, after the factory call
MutateNetworks ==
  /\ bh.stage \in {"built", "called"}
  /\ networks = Nets2
  /\ \/ networks' = Append(networks, LateNetwork)
     \/ networks' = Tail(networks)
  /\ UNCHANGED <<engine, rules, lastCall, calls, rt, bh>>

\* A rule call that reads the networks as they were at the factory call.
InvokeFrozen ==
  /\ bh.stage \in {"built", "called"}
  /\ bh' = [bh EXCEPT !.stage = "called",
                      !.outcome = predicate(bh.built, Nets2, bh.address, bh.chain),
                      !.seenNets = networks]
  /\ UNCHANGED <<engine, networks, rules, lastCall, calls, rt>>

\* built.rule(address), any number of times: getProviderByChainId reads the
\* array as it is now.
InvokeLater ==
  /\ bh.stage \in {"built", "called"}
  /\ bh' = [bh EXCEPT !.stage = "called",
                      !.outcome = predicate(bh.built, networks, bh.address, bh.chain),
                      !.seenNets = networks]
  /\ UNCHANGED <<engine, networks, rules, lastCall, calls, rt>>

NextNetworks == CallFactory \/ MutateNetworks \/ InvokeLater

SpecNetworks == InitNetworks /\ [][NextNetworks]_vars

NoProviderFound == Str("No provider found for chainId: " \o bh.chainId.s)

\* C23: a factory given acceptable params builds the rule whether or not
\* its chainId is among the networks; the rule, called with an address,
\* looks the chainId up in the networks as they are at that call: when it
\* is absent the call resolves to {success: false, error: 'No provider
\* found for chainId: <id>'}, and when it is present - added after the
\* factory call or not - the provider is used and no such error is given.
C23_NetworkLookedUpAtInvocation ==
  /\ (bh.stage # "params" /\ bh.params \in FactoryParams(bh.kind)) => bh.stage # "refused"
  /\ (bh.stage = "called" /\ ~addressMissing(bh.address)) =>
       IF \A i \in 1 .. Len(bh.seenNets) : Str(bh.seenNets[i].chainId) # bh.chainId
       THEN bh.outcome =
              Outcome("resolve",
                      RuleResult(ruleName(bh.built.closure, bh.address), FALSE, NoProviderFound))
       ELSE /\ bh.outcome.how = "resolve"
            /\ bh.outcome.what.error # NoProviderFound

\* A rule built for chain 1 when no network had that chainId, called after
\* the network was pushed, answered with a success.
C23_Witness ==
  /\ bh.stage = "called"
  /\ bh.chainId = Str(ChainX)
  /\ bh.seenNets = <<Net(Chain0, "p0"), Net(Chain1, "p1"), LateNetwork>>
  /\ bh.outcome.how = "resolve"
  /\ bh.outcome.what.success = TRUE

(***************************************************************************)
(* The order of starts and the end of evaluate.                            *)
(***************************************************************************)
\* C24: in an evaluate call every rule's predicate has been called before
\* the call waits for any result: while the call is in flight rule i + 1
\* has been called whether or not rule i has settled.
C24_AllStartedBeforeAnyWait ==
  \A c \in CallIds :
    calls[c].status # "idle" =>
      /\ Len(calls[c].invoked) = Len(rules)
      /\ calls[c].order = <<>> => \A i \in 1 .. Len(rules) : calls[c].invoked[i].count = 1
      /\ \A i \in 1 .. Len(rules) - 1 :
           calls[c].outcomes[i] = NoOutcome => calls[c].invoked[i + 1].count = 1

\* The second rule has settled while the first is still pending.
C24_Witness ==
  \E c \in CallIds :
    /\ calls[c].status = "pending"
    /\ Len(calls[c].invoked) = 2
    /\ calls[c].outcomes[1] = NoOutcome
    /\ calls[c].promises[1] = Pending
    /\ calls[c].order = <<2>>

\* Every predicate that was called settles in the end, and the await of
\* evaluate resumes once Promise.all has settled.
FairEval == \A c \in CallIds : WF_vars(Settle(c)) /\ WF_vars(EvaluateFinish(c))

SpecEvalFair == InitEval /\ [][NextEval]_vars /\ FairEval

\* C25: when every predicate settles in the end, an evaluate call in flight
\* resolves in the end.
C25_EvaluateEventuallyResolves ==
  \A c \in CallIds : (calls[c].status = "pending") ~> (calls[c].status = "resolved")

(***************************************************************************)
(* Claims about an engine in use (checked under SpecUse).                  *)
(***************************************************************************)
\* What a step may do to call c when rules are added around it.
KeepsCall(c) ==
  /\ (calls[c].status = "idle" /\ calls'[c].status # "idle") =>
       Len(calls'[c].invoked) = Len(rules)
  /\ (calls[c].status # "idle" /\ calls'[c].status # "idle") =>
       /\ calls'[c].invoked = calls[c].invoked
       /\ Len(calls'[c].promises) = Len(calls[c].promises)
  /\ rules' # rules => calls'[c] = calls[c]

\* C26: addRule and addRules leave the evaluate calls in flight as they
\* are. A call's predicates are those of the rules present when it was
\* called, its ruleResults has one entry for each of them, in their order,
\* and a rule added later is called by the calls that start after it was
\* added.
C26_InFlightUnaffected ==
  /\ [](\A c \in CallIds :
          calls[c].status = "resolved" =>
            /\ Len(calls[c].ruleResults) = Len(calls[c].invoked)
            /\ Len(calls[c].invoked) <= Len(rules)
            /\ \A i \in 1 .. Len(calls[c].invoked) :
                 /\ calls[c].outcomes[i] \in PossibleOutcomes(rules[i], calls[c].address)
                 /\ calls[c].ruleResults[i] = EntryOf(calls[c].outcomes[i], i))
  /\ [][\A c \in CallIds : KeepsCall(c)]_vars

\* A rule was added while a call over one rule was in flight: the engine
\* holds two rules and the call, its one predicate settled, waits for
\* nothing else.
C26_Witness ==
  \E c \in CallIds :
    /\ calls[c].status = "pending"
    /\ Len(calls[c].promises) = 1
    /\ calls[c].promises[1].state = "fulfilled"
    /\ Len(rules) = 2

(***************************************************************************)
(* Two evaluate calls in flight on one engine.                             *)
(***************************************************************************)
Callers == {1, 2}

\* The engine of the two callers: an addressIsEOA rule, whose result names
\* the address it was called with, alone or followed by a balance rule.
InitCallers ==
  /\ \E batch \in {<<EOARule>>, <<EOARule, WalletRule>>} :
       LET arg == [isArray |-> TRUE, items |-> batch]
           res == construct([defined |-> TRUE, list |-> Nets2], arg)
       IN /\ ~res.threw
          /\ engine = "live"
          /\ networks = res.networks
          /\ rules = res.rules
          /\ lastCall = Called("construct", batch, res, <<>>)
  /\ calls = [c \in Callers |-> IdleCall]
  /\ rt = NoRoundTrip
  /\ bh = NoBehaviour

NextCallers ==
  \E c \in Callers : EvaluateStart(c) \/ Settle(c) \/ EvaluateFinish(c) \/ Forget(c)

SpecCallers == InitCallers /\ [][NextCallers]_vars

\* C27: of two evaluate calls in flight together, each is the call it would
\* be alone: every predicate is called once with the address of its own
\* call, every outcome is one the rule can have for that address, and the
\* EvaluateResult is made of the call's own outcomes, rule by rule.
C27_CallsIndependent ==
  \A c \in Callers :
    calls[c].status # "idle" =>
      /\ \A i \in 1 .. Len(rules) :
           /\ calls[c].invoked[i] = [count |-> 1, address |-> calls[c].address]
           /\ calls[c].outcomes[i] # NoOutcome =>
                calls[c].outcomes[i] \in PossibleOutcomes(rules[i], calls[c].address)
      /\ calls[c].status = "resolved" =>
           /\ calls[c].ruleResults =
                [i \in 1 .. Len(rules) |-> EntryOf(calls[c].outcomes[i], i)]
           /\ calls[c].result =
                \A i \in 1 .. Len(rules) : Succeeded(calls[c].outcomes[i].what)

\* Both calls are in flight with different addresses, the first rule of
\* each has settled, and each result names its own call's address.
C27_Witness ==
  /\ calls[1].status = "pending"
  /\ calls[2].status = "pending"
  /\ calls[1].address = "0xa11ce"
  /\ calls[2].address = "0xb0b"
  /\ calls[1].order = <<1>>
  /\ calls[2].order = <<1>>
  /\ calls[1].promises[1].value.name = "Address is EOA: 0xa11ce"
  /\ calls[2].promises[1].value.name = "Address is EOA: 0xb0b"

(***************************************************************************)
(* What the factories build against what the engine accepts.               *)
(***************************************************************************)
\* The rule is what a factory returns for the params and chainId its
\* predicate closes over.
FactoryBuilt(r) ==
  /\ r.closure.kind \in RuleKinds
  /\ ~ruleFactories(r.closure.kind, networks, r.closure.chainId, r.closure.params).threw
  /\ r = ruleFactories(r.closure.kind, networks, r.closure.chainId, r.closure.params).built

\* C28: addRule accepts every rule a factory returns for params the
\* factory accepts and a chainId of a configured network.
C28_FactoryRulesAccepted ==
  (/\ engine = "live"
   /\ lastCall.op = "addRule"
   /\ FactoryBuilt(lastCall.arg[1])
   /\ ChainConfigured(lastCall.arg[1].definition.chainId)) => ~lastCall.threw

\* The list of definitions as validateRules is given it.
AsInput(defs) ==
  [isArray |-> TRUE,
   items |-> [i \in 1 .. Len(defs) |-> RawDef(defs[i].type, defs[i].chainId, defs[i].params)]]

\* C29: validateRules(list) is true exactly when
\* addRules(createRulesFromDefinitions(networks, list)) succeeds on the
\* same engine.
C29_ValidateAgreesWithImport ==
  lastCall.op = "import" =>
    (validateRules(networks, lastCall.before, AsInput(lastCall.arg)).value = TRUE
       <=> ~lastCall.threw)

(***************************************************************************)
(* The rule list over the engine's life (checked under SpecUse).           *)
(***************************************************************************)
IsPrefix(a, b) == Len(a) <= Len(b) /\ SubSeq(b, 1, Len(a)) = a

\* The step is one of evaluate, or the return of getRuleDefinitions, of
\* exportRulesAsJsonString or of validateRules.
ReadingStep ==
  \/ calls' # calls
  \/ lastCall'.op \in {"getRuleDefinitions", "export", "validateRules"}

\* C30: the rule list only grows at its end. What getRuleDefinitions
\* returned is a prefix of what it returns at any later point, every step
\* keeps the rules held and their definitions where they are, and the steps
\* of evaluate, export and validateRules leave the list as it is.
C30_AppendOnly ==
  /\ [](IsPrefix(rt.seen, getRuleDefinitions(rules)))
  /\ [][/\ IsPrefix(rules, rules')
        /\ IsPrefix(getRuleDefinitions(rules), getRuleDefinitions(rules'))
        /\ ReadingStep => rules' = rules]_vars

\* getRuleDefinitions returned one definition, an evaluate call whose
\* predicate threw has returned, a second rule was added, and validateRules
\* has run since.
C30_Witness ==
  /\ Len(rt.seen) = 1
  /\ Len(rules) = 2
  /\ lastCall.op = "validateRules"
  /\ \E c \in CallIds :
       /\ calls[c].status = "resolved"
       /\ Len(calls[c].outcomes) = 1
       /\ calls[c].outcomes[1].how = "throw"

====
